---------------------------- MODULE Spec2Model ----------------------------
(***************************************************************************)
(* The interactive judging engine of AICodeforcer:                         *)
(*   src/src/AICodeforcer/interactive/tools/interaction_runner.py          *)
(* run_interaction spawns a judge and a solver process, forwards complete  *)
(* lines between them, enforces a total and a per-turn (idle) timeout,     *)
(* derives the verdict from the judge's exit code and tears everything     *)
(* down in a finally block.                                                *)
(*                                                                         *)
(* Time is a discrete clock `now` (one tick = one second of               *)
(* time.perf_counter()).  The environment (the two child processes, the    *)
(* operating system, the passage of time) is nondeterministic.            *)
(***************************************************************************)
EXTENDS Integers, Sequences, FiniteSets, TLC

(***************************************************************************)
(* Bounds of the model                                                     *)
(***************************************************************************)
\* the clock stops advancing here
MaxClock == 6
\* bytes the two processes together may write to their stdout and stderr
MaxOut == 1
\* unlink calls that may fail in one teardown
MaxUnlinkFail == 1
\* terminate() / kill() calls that may fail in one teardown
MaxSignalFail == 1
\* largest num_tests interactive_stress_test is called with
MaxTests == 2
\* largest number of rounds the scripted judge plays
MaxRounds == 2
\* bytes the two processes together may write when the model follows their lines
MaxIoOut == 3
\* lines a child's stdin pipe holds while the child does not read them
PipeLines == 1
\* polling quanta the clock advances past timeout_total while a write blocks
MaxBlocked == 2
\* calls of run_interaction that follow one another
MaxCalls == 2
\* largest max_attempts the solving agent is called with
MaxTurns == 2
\* function calls in one model response
MaxToolCalls == 2
\* largest max_attempts the preprocessor is called with
MaxGenAttempts == 2

(***************************************************************************)
(* Program constants                                                       *)
(***************************************************************************)
\* value of time.perf_counter() when run_interaction is entered (positive)
StartClock == 1
\* "if wait_time > 2.0": the grace window granted to the judge
Grace == 2
\* key.fileobj.read(4096)
ReadSize == 4096
\* Popen.returncode of a child ended by terminate() / kill()
SIGTERM == -15
SIGKILL == -9

\* Python's None is the empty tuple, a value v that is present is <<v>>
None == <<>>
Some(v) == <<v>>

Verdict == {"AC", "WA", "PE", "TLE", "RE"}

\* arguments of run_interaction (in seconds)
TimeoutTotals == {4}
TimeoutsPerTurn == {2, 3}

\* exit codes a judge / a solver may end with on its own
JudgeCodes == {0, 1, 2, 3, -11}
SolverCodes == {0, 7}

\* bytes the processes write: a payload byte and the line break
OutBytes == {"a", "nl"}
ErrBytes == {"e"}

TempFiles == <<"judge_file", "solver_file", "input_file">>

Streams == {<<"judge", "stdout">>, <<"judge", "stderr">>,
            <<"solver", "stdout">>, <<"solver", "stderr">>}

VARIABLES
    pc,               \* position of run_interaction
    now,              \* time.perf_counter()
    timeout_total, timeout_per_turn,
    files,            \* temporary files that exist on disk
    unlink_failed,    \* files whose Path.unlink raised (swallowed)
    judge_proc, solver_proc,
    sel,              \* the selector: "None", "open", "closed"
    pipe,             \* bytes written by a process and not yet read by the runner
    written,          \* number of bytes the processes have written so far
    sent,             \* every byte each process has written to its streams so far
    judge_in, solver_in,   \* lines written to the judge's / solver's stdin
    wire,             \* the writes to either stdin in the order made, each with the
                      \* length the transcript had when it was made
    judge_buffer, solver_buffer,
    log_lines,
    start_time, last_activity, solver_exited, solver_exit_time,
    elapsed, idle_time, judge_poll, solver_poll,
    result,           \* the InteractionResult of the return statement
    \* interactive_stress_test
    st_pc,            \* position of interactive_stress_test ("direct": not called)
    num_tests,
    loop_i,           \* the loop variable i
    gen_result,       \* what execute_code returned for the generator
    test_input,
    report,           \* the value interactive_stress_test returns
    trace,            \* generator executions and interactions started so far
    leaked,           \* processes of earlier interactions that are still alive
    \* a scripted judge and solver (ScriptSpec)
    script,
    \* InteractiveSolver.solve / continue_solving (SolveSpec)
    sv_pc,            \* "idle", "turn" (inside the for loop), "returned", "raised"
    method,           \* "solve" or "continue_solving"
    max_attempts,
    turn,
    last_code,
    stress_test_passed,
    verified_code,
    self_last_code,           \* self._last_code
    self_last_verified_code,  \* self._last_verified_code
    passed_codes,     \* history: the codes a pass report was returned for in
                      \* this call, with no failure report returned since
    solved,           \* the tuple the method returned
    \* InteractivePreprocessor.generate (PrepSpec)
    pp_pc,            \* "idle", "request", "returned"
    gen_max_attempts, \* the argument max_attempts of generate
    attempt,
    retry,
    requests,         \* history: generate_content calls made in each attempt
    response,         \* history: the two blocks extracted from the last response
    validation,       \* history: the last call of validator.validate
    generated         \* what generate returned

procs == <<judge_proc, solver_proc>>
io == <<pipe, written, sent, judge_in, solver_in, wire, judge_buffer, solver_buffer, log_lines>>
clocks == <<start_time, last_activity, solver_exited, solver_exit_time>>
locals == <<elapsed, idle_time, judge_poll, solver_poll>>
args == <<timeout_total, timeout_per_turn>>
disk == <<files, unlink_failed>>
stress == <<st_pc, num_tests, loop_i, gen_result, test_input, report, trace, leaked>>
solving == <<sv_pc, method, max_attempts, turn, last_code, stress_test_passed,
             verified_code, self_last_code, self_last_verified_code,
             passed_codes, solved>>
preprocessing == <<pp_pc, gen_max_attempts, attempt, retry, requests, response,
                   validation, generated>>
agents == <<solving, preprocessing>>
vars == <<pc, now, args, stress, script, disk, procs, sel, io, clocks, locals,
          result, agents>>

(***************************************************************************)
(* Helpers                                                                 *)
(***************************************************************************)
Min2(a, b) == IF a <= b THEN a ELSE b

Take(s, n) == SubSeq(s, 1, Min2(n, Len(s)))
Drop(s, n) == SubSeq(s, Min2(n, Len(s)) + 1, Len(s))

\* a Popen object: "none" before Popen() has returned; `by` records how the
\* child ended: "self", "terminate" (it exited within a second of terminate()),
\* "kill" (killed after that second was over), "kill_only" (killed because
\* terminate() raised); a child that outlives the teardown is Survivor
NoProc == [state |-> "none", code |-> None, by |-> "-"]
Running == [state |-> "running", code |-> None, by |-> "-"]
Exited(c, how) == [state |-> "exited", code |-> Some(c), by |-> how]
Survivor(how) == [state |-> "running", code |-> None, by |-> how]

\* Popen.poll(): the return code, or None while the child runs
Poll(p) == p.code

\* bytes.decode(errors="replace"): an undecodable byte becomes U+FFFD
DecodeByte(b) == IF b = "xff" THEN "U+FFFD" ELSE b
Decode(bs) == [i \in 1..Len(bs) |-> DecodeByte(bs[i])]

IsSpace(c) == c \in {"sp", "nl"}

RECURSIVE LStrip(_)
LStrip(s) == IF s # <<>> /\ IsSpace(Head(s)) THEN LStrip(Tail(s)) ELSE s

RECURSIVE RStrip(_)
RStrip(s) == IF s # <<>> /\ IsSpace(s[Len(s)])
             THEN RStrip(SubSeq(s, 1, Len(s) - 1)) ELSE s

\* str.strip()
Strip(s) == RStrip(LStrip(s))

HasNewline(buf) == \E i \in 1..Len(buf) : buf[i] = "nl"
FirstNewline(buf) == CHOOSE i \in 1..Len(buf) :
                        buf[i] = "nl" /\ \A j \in 1..(i - 1) : buf[j] # "nl"

\* "while b'\n' in buffer: line, buffer = buffer.split(b'\n', 1)":
\* the complete lines (without terminator), in order
RECURSIVE CompleteLines(_)
CompleteLines(buf) ==
    IF HasNewline(buf)
    THEN <<SubSeq(buf, 1, FirstNewline(buf) - 1)>>
         \o CompleteLines(SubSeq(buf, FirstNewline(buf) + 1, Len(buf)))
    ELSE <<>>

\* ... and what stays in the buffer
RECURSIVE Remainder(_)
Remainder(buf) ==
    IF HasNewline(buf)
    THEN Remainder(SubSeq(buf, FirstNewline(buf) + 1, Len(buf)))
    ELSE buf

LogEntry(tag, text) == [tag |-> tag, text |-> text]

\* the log entries of a sequence of forwarded lines
LineEntries(tag, lines) == [i \in 1..Len(lines) |-> LogEntry(tag, Decode(lines[i]))]

\* what is written to the peer's stdin: line + b"\n"
WithTerminators(lines) == [i \in 1..Len(lines) |-> Append(lines[i], "nl")]

(***************************************************************************)
(* VerdictResolver                                                         *)
(***************************************************************************)
\* mutant: the PE branch is missing
ExitCodeToVerdictNoPE(exit_code) ==
    IF exit_code = 0 THEN "AC"
    ELSE IF exit_code = 1 THEN "WA"
    ELSE "RE"

_exit_code_to_verdict(exit_code) ==
    IF exit_code = 0 THEN "AC"
    ELSE IF exit_code = 1 THEN "WA"
    ELSE IF exit_code = 2 THEN "PE"
    ELSE "RE"

(***************************************************************************)
(* InteractionResult values built by the return statements                 *)
(***************************************************************************)
InteractionResult(v, t, code, msg) ==
    [verdict |-> v, time |-> t, exit_code |-> code, error_message |-> msg]

\* no return statement has been executed yet
NoResult == [verdict |-> "none", time |-> 0, exit_code |-> None, error_message |-> None]

\* mutant: the total timeout reported as a runtime error
TotalTimeoutAsRE(e, tt) ==
    InteractionResult("RE", e, None, <<"Total timeout exceeded", tt>>)

TotalTimeoutResult(e, tt) ==
    InteractionResult("TLE", e, None, <<"Total timeout exceeded", tt>>)

TurnTimeoutResult(e, tpt) ==
    InteractionResult("TLE", e, None, <<"Turn timeout exceeded", tpt>>)

\* mutant: an RE derived from the judge's exit code carries no exit_code
JudgeResultNoCodeOnRE(e, jp, sp) ==
    InteractionResult(_exit_code_to_verdict(jp[1]), e,
                      IF _exit_code_to_verdict(jp[1]) = "RE" THEN None ELSE jp, None)

\* mutant: the solver's exit code is recorded when the solver has exited too
JudgeResultSolverCode(e, jp, sp) ==
    InteractionResult(_exit_code_to_verdict(jp[1]), e,
                      IF sp # None THEN sp ELSE jp, None)

JudgeResult(e, jp, sp) ==
    InteractionResult(_exit_code_to_verdict(jp[1]), e, jp, None)

\* mutant: the grace-window RE records the judge's poll (None)
GraceResultJudgePoll(e, jp, sp) ==
    InteractionResult("RE", e, jp, <<"Solver exited but judge didn't respond", sp[1]>>)

GraceResult(e, jp, sp) ==
    InteractionResult("RE", e, sp, <<"Solver exited but judge didn't respond", sp[1]>>)

\* mutant: the except clause forgets the exception's description
ExceptionResultNoMessage(e, what) == InteractionResult("RE", e, None, None)

ExceptionResult(e, what) ==
    InteractionResult("RE", e, None, <<"exception", what>>)

(***************************************************************************)
(* The conditions of the event loop                                        *)
(***************************************************************************)
\* mutant: the total budget counts as exceeded when it is just used up
TotalExceededAtLimit(e, tt) == e >= tt

TotalExceeded(e, tt) == e > tt

\* mutant: the idle time is compared with the total budget
IdleExceededTotalBudget(idle, tpt) == idle > timeout_total

IdleExceeded(idle, tpt) == idle > tpt
GraceExceeded(wait) == wait > Grace

\* "if solver_exited and solver_exit_time": None and 0.0 are falsy
Truthy(t) == t # None /\ t[1] # 0

(***************************************************************************)
(* Initial state: run_interaction has been called, nothing is created yet  *)
(***************************************************************************)
\* the runner's state when run_interaction is entered
RunnerInit ==
    /\ pc = "tempfiles"
    /\ now = StartClock
    /\ files = {}
    /\ unlink_failed = {}
    /\ judge_proc = NoProc
    /\ solver_proc = NoProc
    /\ sel = "None"
    /\ pipe = [s \in Streams |-> <<>>]
    /\ sent = [s \in Streams |-> <<>>]
    /\ written = 0
    /\ judge_in = <<>>
    /\ solver_in = <<>>
    /\ wire = <<>>
    /\ judge_buffer = <<>>
    /\ solver_buffer = <<>>
    /\ log_lines = <<>>
    /\ start_time = StartClock
    /\ last_activity = 0
    /\ solver_exited = FALSE
    /\ solver_exit_time = None
    /\ elapsed = 0
    /\ idle_time = 0
    /\ judge_poll = None
    /\ solver_poll = None
    /\ result = NoResult

\* run_interaction is called on its own, not by interactive_stress_test
CalledDirectly ==
    /\ st_pc = "direct"
    /\ num_tests = 0
    /\ loop_i = 0
    /\ gen_result = None
    /\ test_input = ""
    /\ report = None
    /\ trace = <<>>
    /\ leaked = {}

\* generate has not been called
PreprocessorIdle ==
    /\ pp_pc = "idle"
    /\ gen_max_attempts = 0
    /\ attempt = 0
    /\ retry = 0
    /\ requests = <<>>
    /\ response = None
    /\ validation = None
    /\ generated = None

\* no agent has been called
AgentsIdle ==
    /\ PreprocessorIdle
    /\ sv_pc = "idle"
    /\ method = "solve"
    /\ max_attempts = 0
    /\ turn = 0
    /\ last_code = None
    /\ stress_test_passed = FALSE
    /\ verified_code = None
    /\ self_last_code = None
    /\ self_last_verified_code = None
    /\ passed_codes = {}
    /\ solved = None

\* the two children behave freely, not by a script
NoScript == [n |-> 0, correct |-> 0, round |-> 0, asked |-> FALSE, jread |-> 0,
             sread |-> 0]

Init ==
    /\ RunnerInit
    /\ timeout_total \in TimeoutTotals
    /\ timeout_per_turn \in TimeoutsPerTurn
    /\ CalledDirectly
    /\ script = NoScript
    /\ AgentsIdle

(***************************************************************************)
(* Setup: the three temporary files, the two processes, the selector       *)
(***************************************************************************)
SetupPcs == {"spawn_judge", "spawn_solver", "register"}
LoopPcs == {"loop", "select"}

\* one "with tempfile.NamedTemporaryFile(..., delete=False)" block succeeds
CreateTempFile ==
    /\ pc = "tempfiles"
    /\ LET i == Cardinality(files) + 1 IN
        /\ files' = files \cup {TempFiles[i]}
        /\ pc' = IF i = Len(TempFiles) THEN "spawn_judge" ELSE "tempfiles"
    /\ UNCHANGED <<agents, script, now, args, stress, unlink_failed, procs, sel, io, clocks, locals,
                   result>>

\* One of the blocks raises.  They are outside the try statement: the
\* exception leaves run_interaction and nothing deletes the files made so
\* far.  When it is f.write that raises, the file of this block exists too
\* (delete=False).
TempFileError ==
    /\ pc = "tempfiles"
    /\ \E opened \in BOOLEAN :
        files' = IF opened THEN files \cup {TempFiles[Cardinality(files) + 1]}
                 ELSE files
    /\ pc' = "raised"
    /\ UNCHANGED <<agents, script, now, args, stress, unlink_failed, procs, sel, io, clocks,
                   locals, result>>

SpawnJudge ==
    /\ pc = "spawn_judge"
    /\ judge_proc' = Running
    /\ pc' = "spawn_solver"
    /\ UNCHANGED <<agents, script, now, args, stress, disk, solver_proc, sel, io, clocks, locals,
                   result>>

SpawnSolver ==
    /\ pc = "spawn_solver"
    /\ solver_proc' = Running
    /\ pc' = "register"
    /\ UNCHANGED <<agents, script, now, args, stress, disk, judge_proc, sel, io, clocks, locals,
                   result>>

\* selector created, four streams registered, the loop's locals initialised
Register ==
    /\ pc = "register"
    /\ sel' = "open"
    /\ judge_buffer' = <<>>
    /\ solver_buffer' = <<>>
    /\ last_activity' = now
    /\ solver_exited' = FALSE
    /\ solver_exit_time' = None
    /\ pc' = "loop"
    /\ UNCHANGED <<agents, script, now, args, stress, disk, procs, pipe, written, sent, judge_in, solver_in, wire,
                   log_lines, start_time, locals, result>>

\* mutant: an exception of Popen leaves run_interaction
InternalExceptionPropagates ==
    /\ pc \in SetupPcs \cup {"select"}
    /\ elapsed' = now - start_time
    /\ result' = IF pc \in {"spawn_judge", "spawn_solver"} THEN result
                 ELSE ExceptionResult(elapsed', pc)
    /\ sel' \in (IF pc = "register" THEN {"None", "open"} ELSE {sel})
    /\ pc' = IF pc \in {"spawn_judge", "spawn_solver"} THEN "raised" ELSE "finally"
    /\ UNCHANGED <<agents, script, now, args, stress, disk, procs, io, clocks, idle_time, judge_poll,
                   solver_poll>>

\* "except Exception as e": Popen, the selector or select() raised
InternalException ==
    /\ pc \in SetupPcs \cup {"select"}
    /\ elapsed' = now - start_time
    /\ result' = ExceptionResult(elapsed', pc)
    /\ sel' \in (IF pc = "register" THEN {"None", "open"} ELSE {sel})
    /\ pc' = "finally"
    /\ UNCHANGED <<agents, script, now, args, stress, disk, procs, io, clocks, idle_time, judge_poll,
                   solver_poll>>

(***************************************************************************)
(* The event loop, lines 114-165: one iteration up to the select call      *)
(***************************************************************************)
\* "if elapsed > timeout_total: return TLE"
TotalTimeout ==
    /\ pc = "loop"
    /\ TotalExceeded(now - start_time, timeout_total)
    /\ elapsed' = now - start_time
    /\ result' = TotalTimeoutResult(elapsed', timeout_total)
    /\ pc' = "finally"
    /\ UNCHANGED <<agents, script, now, args, stress, disk, procs, sel, io, clocks, idle_time, judge_poll,
                   solver_poll>>

\* mutant: the idle check does not wait for the total check to pass
TotalNotChecked == TRUE

\* the total check, which comes first in the iteration, did not return
TotalChecked == ~TotalExceeded(now - start_time, timeout_total)

\* "if idle_time > timeout_per_turn: return TLE"
TurnTimeout ==
    /\ pc = "loop"
    /\ TotalChecked
    /\ IdleExceeded(now - last_activity, timeout_per_turn)
    /\ elapsed' = now - start_time
    /\ idle_time' = now - last_activity
    /\ result' = TurnTimeoutResult(elapsed', timeout_per_turn)
    /\ pc' = "finally"
    /\ UNCHANGED <<agents, script, now, args, stress, disk, procs, sel, io, clocks, judge_poll,
                   solver_poll>>

\* mutant: the judge is polled first, its exit skips the timeout checks
ChecksSkippedOnJudgeExit ==
    /\ pc = "loop"
    /\ \/ Poll(judge_proc) # None
       \/ /\ ~TotalExceeded(now - start_time, timeout_total)
          /\ ~IdleExceeded(now - last_activity, timeout_per_turn)

\* both timeout checks passed
ChecksPassed ==
    /\ pc = "loop"
    /\ ~TotalExceeded(now - start_time, timeout_total)
    /\ ~IdleExceeded(now - last_activity, timeout_per_turn)

\* the locals of an iteration that returns: elapsed, idle_time and the two polls
Polled ==
    /\ ChecksPassed
    /\ elapsed' = now - start_time
    /\ idle_time' = now - last_activity
    /\ judge_poll' = Poll(judge_proc)
    /\ solver_poll' = Poll(solver_proc)

\* mutant: the lines the solver has written are drained into the transcript
\* when the judge is found to have exited
JudgeExitedDrains ==
    /\ Polled
    /\ judge_poll' # None
    /\ result' = JudgeResult(elapsed', judge_poll', solver_poll')
    /\ log_lines' = log_lines \o LineEntries("SOLVER -> JUDGE",
                        CompleteLines(solver_buffer \o pipe[<<"solver", "stdout">>]))
    /\ pc' = "finally"
    /\ UNCHANGED <<agents, script, now, args, stress, disk, procs, sel, pipe, written, sent,
                   judge_in, solver_in, wire, judge_buffer, solver_buffer, clocks>>

\* "if judge_poll is not None: return verdict"
JudgeExited ==
    /\ Polled
    /\ judge_poll' # None
    /\ result' = JudgeResult(elapsed', judge_poll', solver_poll')
    /\ pc' = "finally"
    /\ UNCHANGED <<agents, script, now, args, stress, disk, procs, sel, io, clocks>>

\* mutant: every iteration that finds the solver dead records its exit anew
SolverExitRerecorded ==
    LET sp == Poll(solver_proc) IN
    /\ solver_exited' = (solver_exited \/ sp # None)
    /\ solver_exit_time' = IF sp # None THEN Some(now) ELSE solver_exit_time
    /\ log_lines' = IF sp # None
                    THEN Append(log_lines,
                                LogEntry("INFO", <<"Solver exited with code",
                                                   ToString(sp[1])>>))
                    ELSE log_lines

\* "if solver_poll is not None and not solver_exited": recorded once
SolverExitRecorded ==
    LET sp == Poll(solver_proc) IN
    /\ solver_exited' = (solver_exited \/ sp # None)
    /\ solver_exit_time' = IF sp # None /\ ~solver_exited
                           THEN Some(now) ELSE solver_exit_time
    /\ log_lines' = IF sp # None /\ ~solver_exited
                    THEN Append(log_lines,
                                LogEntry("INFO", <<"Solver exited with code",
                                                   ToString(sp[1])>>))
                    ELSE log_lines

\* mutant: the grace window is checked without regard to the judge's poll
GraceExpiredBeforeJudge ==
    /\ Polled
    /\ SolverExitRecorded
    /\ solver_exited' /\ Truthy(solver_exit_time')
    /\ GraceExceeded(now - solver_exit_time'[1])
    /\ result' = GraceResult(elapsed', judge_poll', solver_poll')
    /\ pc' = "finally"
    /\ UNCHANGED <<agents, script, now, args, stress, disk, procs, sel, pipe, written, sent, judge_in, solver_in, wire,
                   judge_buffer, solver_buffer, start_time, last_activity>>

\* "if wait_time > 2.0: return RE"
GraceExpired ==
    /\ Polled
    /\ judge_poll' = None
    /\ SolverExitRecorded
    /\ solver_exited' /\ Truthy(solver_exit_time')
    /\ GraceExceeded(now - solver_exit_time'[1])
    /\ result' = GraceResult(elapsed', judge_poll', solver_poll')
    /\ pc' = "finally"
    /\ UNCHANGED <<agents, script, now, args, stress, disk, procs, sel, pipe, written, sent, judge_in, solver_in, wire,
                   judge_buffer, solver_buffer, start_time, last_activity>>

\* No terminal condition holds: go on to wait for I/O.  The locals of this
\* iteration are overwritten by the next one before they are read again, so
\* the model keeps only those of the iteration that returns.
Continue ==
    /\ ChecksPassed
    /\ Poll(judge_proc) = None
    /\ SolverExitRecorded
    /\ ~(solver_exited' /\ Truthy(solver_exit_time')
         /\ GraceExceeded(now - solver_exit_time'[1]))
    /\ pc' = "select"
    /\ UNCHANGED <<agents, script, now, args, stress, disk, procs, sel, pipe, written, sent, judge_in, solver_in, wire,
                   judge_buffer, solver_buffer, start_time, last_activity, locals,
                   result>>

(***************************************************************************)
(* The event loop, lines 167-217: select and the handling of its events    *)
(***************************************************************************)
ProcOf(source) == IF source = "judge" THEN judge_proc ELSE solver_proc

RECURSIVE Perms(_)
Perms(S) == IF S = {} THEN {<<>>}
            ELSE UNION {{<<x>> \o p : p \in Perms(S \ {x})} : x \in S}

\* a stream is readable when it holds bytes, or is at end-of-file
Readable(s) == pipe[s] # <<>> \/ ProcOf(s[1]).state = "exited"

\* "data = key.fileobj.read(4096)"
ReadData(key) == Take(pipe[key], ReadSize)

\* what the handlers of one batch of events update
Session == [judge_buffer |-> judge_buffer, solver_buffer |-> solver_buffer,
            log_lines |-> log_lines, judge_in |-> judge_in, solver_in |-> solver_in,
            wire |-> wire]

\* mutant: a line is written to the peer before its transcript entry is made
WritesBeforeLogged(dest, lines, n) ==
    [i \in 1..Len(lines) |->
        [to |-> dest, line |-> Append(lines[i], "nl"), entries |-> n + i - 1]]

\* The writes of one pass over a buffer whose complete lines are `lines`,
\* when the transcript held n entries before: "log_lines.append(...)" comes
\* before "stdin.write(line + b'\n')" in each pass of the while loop, so the
\* i-th line is written when the transcript holds n + i entries, the last
\* being its own.
Writes(dest, lines, n) ==
    [i \in 1..Len(lines) |->
        [to |-> dest, line |-> Append(lines[i], "nl"), entries |-> n + i]]

\* mutant: the lines are written to the solver without their terminator
ForwardToSolverUnterminated(stdin, lines) ==
    IF Poll(solver_proc) = None THEN stdin \o lines ELSE stdin

\* "if solver_proc.poll() is None: solver_proc.stdin.write(line + b'\n')"
ForwardToSolver(stdin, lines) ==
    IF Poll(solver_proc) = None THEN stdin \o WithTerminators(lines) ELSE stdin

\* "judge_proc.stdin.write(line + b'\n')": the write to a judge that has
\* exited raises BrokenPipeError, which is dropped
ForwardToJudge(stdin, lines) ==
    IF judge_proc.state = "running" THEN stdin \o WithTerminators(lines) ELSE stdin

\* mutant: the lines of the judge are dropped unlogged once the solver is gone
HandleJudgeStdoutIfAlive(st, data) ==
    LET buf == st.judge_buffer \o data
        lines == CompleteLines(buf)
    IN  IF Poll(solver_proc) = None
        THEN [st EXCEPT !.judge_buffer = Remainder(buf),
                        !.log_lines = @ \o LineEntries("JUDGE -> SOLVER", lines),
                        !.solver_in = ForwardToSolver(@, lines),
                        !.wire = @ \o Writes("solver", lines, Len(st.log_lines))]
        ELSE [st EXCEPT !.judge_buffer = Remainder(buf)]

\* mutant: the lines of the judge are forwarded without being logged
HandleJudgeStdoutNoLog(st, data) ==
    LET buf == st.judge_buffer \o data
        lines == CompleteLines(buf)
    IN  [st EXCEPT !.judge_buffer = Remainder(buf),
                   !.solver_in = ForwardToSolver(@, lines)]

\* judge stdout: log each complete line and forward it to the solver
HandleJudgeStdout(st, data) ==
    LET buf == st.judge_buffer \o data
        lines == CompleteLines(buf)
    IN  [st EXCEPT !.judge_buffer = Remainder(buf),
                   !.log_lines = @ \o LineEntries("JUDGE -> SOLVER", lines),
                   !.solver_in = ForwardToSolver(@, lines),
                   !.wire = IF ForwardToSolver(<<>>, lines) # <<>>
                            THEN @ \o Writes("solver", lines, Len(st.log_lines))
                            ELSE @]

\* mutant: the solver's bytes are collected in the judge's buffer
HandleSolverStdoutSharedBuffer(st, data) ==
    LET buf == st.judge_buffer \o data
        lines == CompleteLines(buf)
    IN  [st EXCEPT !.judge_buffer = Remainder(buf),
                   !.log_lines = @ \o LineEntries("SOLVER -> JUDGE", lines),
                   !.judge_in = ForwardToJudge(@, lines)]

\* solver stdout: log each complete line and forward it to the judge
HandleSolverStdout(st, data) ==
    LET buf == st.solver_buffer \o data
        lines == CompleteLines(buf)
    IN  [st EXCEPT !.solver_buffer = Remainder(buf),
                   !.log_lines = @ \o LineEntries("SOLVER -> JUDGE", lines),
                   !.judge_in = ForwardToJudge(@, lines),
                   !.wire = IF ForwardToJudge(<<>>, lines) # <<>>
                            THEN @ \o Writes("judge", lines, Len(st.log_lines))
                            ELSE @]

\* mutant: the stderr bytes of a process are also written to its peer's stdin
HandleStderrForwards(st, source, data) ==
    LET stderr_str == Strip(Decode(data))
        logged == IF stderr_str # <<>>
                  THEN [st EXCEPT !.log_lines =
                           Append(@, LogEntry(IF source = "judge" THEN "JUDGE STDERR"
                                              ELSE "SOLVER STDERR", stderr_str))]
                  ELSE st
    IN  IF source = "judge"
        THEN [logged EXCEPT !.solver_in = Append(@, data)]
        ELSE [logged EXCEPT !.judge_in = Append(@, data)]

\* stderr of either process: logged when not blank, never forwarded
HandleStderr(st, source, data) ==
    LET stderr_str == Strip(Decode(data))
    IN  IF stderr_str # <<>>
        THEN [st EXCEPT !.log_lines =
                 Append(@, LogEntry(IF source = "judge" THEN "JUDGE STDERR"
                                    ELSE "SOLVER STDERR", stderr_str))]
        ELSE st

\* the body of "for key, _ in events" for one key
HandleEvent(st, key, data) ==
    IF data = <<>> THEN st
    ELSE IF key = <<"judge", "stdout">> THEN HandleJudgeStdout(st, data)
    ELSE IF key = <<"solver", "stdout">> THEN HandleSolverStdout(st, data)
    ELSE HandleStderr(st, key[1], data)

RECURSIVE HandleEvents(_, _)
HandleEvents(st, keys) ==
    IF keys = <<>> THEN st
    ELSE HandleEvents(HandleEvent(st, Head(keys), ReadData(Head(keys))), Tail(keys))

\* mutant: every event of select resets the idle clock, end-of-file included
ActivityOnAnyEvent(keys) ==
    IF keys # <<>> THEN now ELSE last_activity

\* "last_activity = time.perf_counter()" after a read that returned data
Activity(keys) ==
    IF \E i \in 1..Len(keys) : ReadData(keys[i]) # <<>> THEN now ELSE last_activity

\* "events = sel.select(timeout=...)" and the for loop over the events: the
\* readable keys are handled in the order the selector returns them
Select ==
    /\ pc = "select"
    /\ \E keys \in Perms({s \in Streams : Readable(s)}) :
        LET st == HandleEvents(Session, keys)
        IN  /\ judge_buffer' = st.judge_buffer
            /\ solver_buffer' = st.solver_buffer
            /\ log_lines' = st.log_lines
            /\ judge_in' = st.judge_in
            /\ solver_in' = st.solver_in
            /\ wire' = st.wire
            /\ last_activity' = Activity(keys)
            /\ pipe' = [s \in Streams |->
                          IF \E i \in 1..Len(keys) : keys[i] = s
                          THEN Drop(pipe[s], ReadSize) ELSE pipe[s]]
    /\ pc' = "loop"
    /\ UNCHANGED <<agents, script, now, args, stress, disk, procs, sel, written, sent, start_time, solver_exited,
                   solver_exit_time, locals, result>>

(***************************************************************************)
(* Teardown: the finally block, lines 237-254                              *)
(***************************************************************************)
\* The body of "for proc in [judge_proc, solver_proc]" for one process, each
\* outcome with the number of signal calls that failed in it.  A child that
\* still runs has terminate() called on it and is waited for one second:
\*   it exits in time;
\*   wait raises TimeoutExpired: kill(), which ends it, or which fails (it
\*     raises, or the second wait times out: "except Exception: pass");
\*   terminate() raises: kill() at once without a wait, which ends it or raises.
CleanedUp(p) ==
    IF p.state = "running"
    THEN {[proc |-> Exited(SIGTERM, "terminate"), fails |-> 0],
          [proc |-> Exited(SIGKILL, "kill"), fails |-> 0],
          [proc |-> Survivor("kill_failed"), fails |-> 1],
          [proc |-> Exited(SIGKILL, "kill_only"), fails |-> 1],
          [proc |-> Survivor("signals_failed"), fails |-> 2]}
    ELSE {[proc |-> p, fails |-> 0]}

\* mutant: an exception of the judge's teardown ends _cleanup_processes
CleanupStopsAtFailure ==
    IF judge_proc.state # "none" \/ solver_proc.state # "none"
    THEN \E j \in CleanedUp(judge_proc), s \in CleanedUp(solver_proc) :
            /\ j.fails + s.fails <= MaxSignalFail
            /\ judge_proc' = j.proc
            /\ solver_proc' = IF j.fails > 0 THEN solver_proc ELSE s.proc
    ELSE UNCHANGED procs

\* "if judge_proc is not None or solver_proc is not None: _cleanup_processes":
\* each process is handled inside its own try, so whatever happened to the
\* judge, the solver is handled next
CleanupProcesses ==
    IF judge_proc.state # "none" \/ solver_proc.state # "none"
    THEN \E j \in CleanedUp(judge_proc), s \in CleanedUp(solver_proc) :
            /\ j.fails + s.fails <= MaxSignalFail
            /\ judge_proc' = j.proc
            /\ solver_proc' = s.proc
    ELSE UNCHANGED procs

\* "if sel is not None: sel.close()"
CloseSelector ==
    sel' = IF sel = "open" THEN "closed" ELSE sel

\* mutant: the test input file is not in the list of files to delete
UnlinkTwoFiles ==
    \E failed \in {F \in SUBSET (files \ {"input_file"}) :
                       Cardinality(F) <= MaxUnlinkFail} :
        /\ unlink_failed' = failed
        /\ files' = failed \cup (files \cap {"input_file"})

\* "for f in [judge_file, solver_file, input_file]: Path(f).unlink(...)":
\* an unlink that raises is swallowed and leaves its file behind
UnlinkFiles ==
    \E failed \in {F \in SUBSET files : Cardinality(F) <= MaxUnlinkFail} :
        /\ unlink_failed' = failed
        /\ files' = failed

\* mutant: a failure inside the finally block replaces the pending result
ResultReplaced == result' = ExceptionResult(elapsed, "finally")

\* the finally block holds no return statement and swallows its own
\* exceptions: the value of the try block's return statement stands
ResultKept == result' = result

\* the finally block; nothing else of the model acts while it runs, and the
\* function then returns `result`
Finally ==
    /\ pc = "finally"
    /\ CleanupProcesses
    /\ CloseSelector
    /\ UnlinkFiles
    /\ ResultKept
    /\ pc' = "done"
    /\ UNCHANGED <<agents, script, now, args, stress, io, clocks, locals>>

(***************************************************************************)
(* The environment: time and the two child processes                       *)
(***************************************************************************)
\* Time passes and a child exits while the runner waits in select (or is about
\* to call it): an exit is first seen by the poll of the next iteration, and
\* an exit before the first iteration is seen like one during its select.
Live == pc = "select"

Tick ==
    /\ Live
    /\ now < MaxClock
    /\ now' = now + 1
    /\ UNCHANGED <<agents, script, pc, args, stress, disk, procs, sel, io, clocks, locals, result>>

StreamBytes(s) == IF s[2] = "stdout" THEN OutBytes ELSE ErrBytes

\* a running child writes one byte to its stdout or stderr, at any point of
\* the loop: before the select that reads it, or after it (the byte is then
\* pending when the iteration's checks run)
WriteUpTo(budget) ==
    /\ pc \in LoopPcs
    /\ \E s \in Streams, b \in OutBytes \cup ErrBytes :
        /\ b \in StreamBytes(s)
        /\ ProcOf(s[1]).state = "running"
        /\ written < budget
        /\ pipe' = [pipe EXCEPT ![s] = Append(pipe[s], b)]
        /\ sent' = [sent EXCEPT ![s] = Append(sent[s], b)]
        /\ written' = written + 1
    /\ UNCHANGED <<agents, script, pc, now, args, stress, disk, procs, sel, judge_in, solver_in, wire,
                   judge_buffer, solver_buffer, log_lines, clocks, locals, result>>

ProcWrite == WriteUpTo(MaxOut)

JudgeExits ==
    /\ Live
    /\ judge_proc.state = "running"
    /\ \E c \in JudgeCodes : judge_proc' = Exited(c, "self")
    /\ UNCHANGED <<agents, script, pc, now, args, stress, disk, solver_proc, sel, io, clocks, locals,
                   result>>

SolverExits ==
    /\ Live
    /\ solver_proc.state = "running"
    /\ \E c \in SolverCodes : solver_proc' = Exited(c, "self")
    /\ UNCHANGED <<agents, script, pc, now, args, stress, disk, judge_proc, sel, io, clocks, locals,
                   result>>

Next ==
    \/ CreateTempFile \/ TempFileError
    \/ SpawnJudge \/ SpawnSolver \/ Register \/ InternalException
    \/ TotalTimeout \/ TurnTimeout \/ JudgeExited \/ GraceExpired \/ Continue
    \/ Select
    \/ Finally
    \/ Tick \/ ProcWrite \/ JudgeExits \/ SolverExits

Spec == Init /\ [][Next]_vars

(***************************************************************************)
(* interactive_stress_test: the loop over the trials.  A call of           *)
(* run_interaction is two steps here, its setup and its return, with the   *)
(* results its return statements can build.                                *)
(***************************************************************************)
\* "timeout_total=30.0, timeout_per_turn=2.0"
StressTimeoutTotal == 30
StressTimeoutPerTurn == 2

\* what execute_code returns for the generator: a status, the captured
\* stdout (possibly None) and an error message (possibly None)
ExecResults ==
    [status : {"passed"}, actual_output : {None, Some("x"), Some("y")},
     error_message : {None}]
    \cup [status : {"runtime_error", "timeout"}, actual_output : {None, Some("x")},
          error_message : {None, Some("boom")}]

\* the test inputs a generator execution that passed yields
TestInputs == {"", "x", "y"}

\* "x or default": None and the empty string give the default
OrElse(opt, default) == IF opt = None \/ opt[1] = "" THEN default ELSE opt[1]

\* transcripts an interaction may have produced when it returns
Transcripts == {<<>>, <<LogEntry("JUDGE -> SOLVER", <<"a">>)>>}

\* the solver when the event loop ends: running, or exited on its own
SolverStates == {Running} \cup {Exited(c, "self") : c \in SolverCodes}

\* How the event loop of run_interaction ends under the stress test's
\* budgets: the result of the return statement that is executed, and the two
\* processes as they are then.
RunnerOutcomes ==
    {[result |-> JudgeResult(1, Some(c), sp.code), judge |-> Exited(c, "self"),
      solver |-> sp] : c \in JudgeCodes, sp \in SolverStates}
    \cup {[result |-> r, judge |-> Running, solver |-> sp] :
            r \in {TotalTimeoutResult(StressTimeoutTotal + 1, StressTimeoutTotal),
                   TurnTimeoutResult(StressTimeoutPerTurn + 1, StressTimeoutPerTurn),
                   ExceptionResult(1, "select")},
            sp \in SolverStates}
    \cup {[result |-> GraceResult(Grace + 1, None, Some(c)), judge |-> Running,
           solver |-> Exited(c, "self")] : c \in SolverCodes}

\* mutant: the report names the loop variable instead of the trial number
GeneratorErrorReportZeroBased(n, g) ==
    [kind |-> "GENERATOR ERROR", test |-> n - 1,
     error |-> OrElse(g.error_message, "Unknown error"),
     stdout |-> OrElse(g.actual_output, ""), status |-> g.status]

\* the three shapes of the report
GeneratorErrorReport(n, g) ==
    [kind |-> "GENERATOR ERROR", test |-> n,
     error |-> OrElse(g.error_message, "Unknown error"),
     stdout |-> OrElse(g.actual_output, ""), status |-> g.status]

\* mutant: the failure report leaves the test input out
FailureReportNoInput(n, r, input, log) ==
    [kind |-> "INTERACTIVE TEST FAILED", test |-> n, verdict |-> r.verdict,
     time |-> r.time, exit_code |-> r.exit_code,
     error |-> r.error_message, input |-> "", log |-> log]

FailureReport(n, r, input, log) ==
    [kind |-> "INTERACTIVE TEST FAILED", test |-> n, verdict |-> r.verdict,
     time |-> r.time, exit_code |-> r.exit_code,
     error |-> r.error_message, input |-> input, log |-> log]

PassReport(n) == [kind |-> "INTERACTIVE STRESS TEST PASSED", count |-> n]

\* the runner's variables while interactive_stress_test is between two calls
runner == <<pc, now, args, disk, procs, sel, io, clocks, locals, result>>

StressInit ==
    /\ RunnerInit
    /\ timeout_total = StressTimeoutTotal
    /\ timeout_per_turn = StressTimeoutPerTurn
    /\ st_pc = "for"
    /\ num_tests \in -1..MaxTests
    /\ loop_i = 0
    /\ gen_result = None
    /\ test_input = ""
    /\ report = None
    /\ trace = <<>>
    /\ leaked = {}
    /\ script = NoScript
    /\ AgentsIdle

\* "gen_result = execute_code(...)" returns a status other than "passed":
\* the generator-error report is returned
GeneratorFails ==
    /\ st_pc = "for"
    /\ loop_i < num_tests
    /\ \E g \in ExecResults :
        /\ g.status # "passed"
        /\ gen_result' = Some(g)
        /\ trace' = Append(trace, [ev |-> "generator", test |-> loop_i + 1,
                                   data |-> OrElse(g.actual_output, "")])
        /\ report' = Some(GeneratorErrorReport(loop_i + 1, g))
    /\ st_pc' = "done"
    /\ UNCHANGED <<agents, script, runner, num_tests, loop_i, test_input, leaked>>

\* mutant: the body of the loop runs once before num_tests is looked at
GeneratorPassesAtLeastOnce ==
    /\ st_pc = "for"
    /\ loop_i < num_tests \/ loop_i = 0
    /\ \E g \in ExecResults :
        /\ g.status = "passed"
        /\ gen_result' = Some(g)
        /\ trace' = Append(trace, [ev |-> "generator", test |-> loop_i + 1,
                                   data |-> OrElse(g.actual_output, "")])
        /\ test_input' = OrElse(g.actual_output, "")
    /\ st_pc' = "call"
    /\ UNCHANGED <<agents, script, runner, num_tests, loop_i, report, leaked>>

\* the generator passed: "test_input = gen_result.actual_output or ''"
GeneratorPasses ==
    /\ st_pc = "for"
    /\ loop_i < num_tests
    /\ \E g \in ExecResults :
        /\ g.status = "passed"
        /\ gen_result' = Some(g)
        /\ trace' = Append(trace, [ev |-> "generator", test |-> loop_i + 1,
                                   data |-> OrElse(g.actual_output, "")])
        /\ test_input' = OrElse(g.actual_output, "")
    /\ st_pc' = "call"
    /\ UNCHANGED <<agents, script, runner, num_tests, loop_i, report, leaked>>

\* the processes of the previous call that its teardown left alive
LeftAlive ==
    {[role |-> r, test |-> loop_i, by |-> ProcOf(r).by] :
        r \in {r \in {"judge", "solver"} : ProcOf(r).state = "running"}}

\* "result = run_interaction(...)" is called: its setup (three temporary
\* files, both processes, the selector) succeeds and it enters its event loop
StartInteraction ==
    /\ st_pc = "call"
    /\ trace' = Append(trace, [ev |-> "interaction", test |-> loop_i + 1,
                               data |-> test_input])
    /\ leaked' = leaked \cup LeftAlive
    /\ timeout_total' = StressTimeoutTotal
    /\ timeout_per_turn' = StressTimeoutPerTurn
    /\ files' = {TempFiles[k] : k \in 1..Len(TempFiles)}
    /\ unlink_failed' = {}
    /\ judge_proc' = Running
    /\ solver_proc' = Running
    /\ sel' = "open"
    /\ log_lines' = <<>>
    /\ result' = NoResult
    /\ pc' = "loop"
    /\ st_pc' = "interaction"
    /\ UNCHANGED <<agents, script, now, pipe, written, sent, judge_in, solver_in, wire, judge_buffer,
                   solver_buffer, clocks, locals, num_tests, loop_i, gen_result,
                   test_input, report>>

\* run_interaction is called and creating one of its temporary files raises:
\* the exception leaves run_interaction and interactive_stress_test
SetupRaises ==
    /\ st_pc = "call"
    /\ trace' = Append(trace, [ev |-> "interaction", test |-> loop_i + 1,
                               data |-> test_input])
    /\ leaked' = leaked \cup LeftAlive
    /\ \E k \in 0..Len(TempFiles) : files' = {TempFiles[j] : j \in 1..k}
    /\ unlink_failed' = {}
    /\ judge_proc' = NoProc
    /\ solver_proc' = NoProc
    /\ sel' = "None"
    /\ result' = NoResult
    /\ pc' = "raised"
    /\ st_pc' = "raised"
    /\ UNCHANGED <<agents, script, now, args, io, clocks, locals, num_tests, loop_i, gen_result,
                   test_input, report>>

\* the event loop of the call ends with one of its return statements; what
\* follows is the finally block of run_interaction (Finally)
InteractionResolves ==
    /\ st_pc = "interaction"
    /\ pc = "loop"
    /\ \E o \in RunnerOutcomes :
        /\ result' = o.result
        /\ judge_proc' = o.judge
        /\ solver_proc' = o.solver
    /\ log_lines' \in Transcripts
    /\ pc' = "finally"
    /\ UNCHANGED <<agents, script, now, args, stress, disk, sel, pipe, written, sent, judge_in, solver_in, wire,
                   judge_buffer, solver_buffer, clocks, locals>>

\* run_interaction has returned: "result = run_interaction(...)"
InteractionReturns ==
    /\ st_pc = "interaction"
    /\ pc = "done"
    /\ trace' = Append(trace, [ev |-> "verdict", test |-> loop_i + 1,
                               data |-> result.verdict])
    /\ st_pc' = "verdict"
    /\ UNCHANGED <<agents, script, runner, num_tests, loop_i, gen_result, test_input, report, leaked>>

\* mutant: the loop goes on after a verdict other than AC
TrialFailedContinues ==
    /\ st_pc = "verdict"
    /\ result.verdict # "AC"
    /\ loop_i' = loop_i + 1
    /\ st_pc' = "for"
    /\ UNCHANGED <<agents, script, runner, num_tests, gen_result, test_input, report, trace, leaked>>

\* "if result.verdict != 'AC': return" the failure report
TrialFailed ==
    /\ st_pc = "verdict"
    /\ result.verdict # "AC"
    /\ report' = Some(FailureReport(loop_i + 1, result, test_input, log_lines))
    /\ st_pc' = "done"
    /\ UNCHANGED <<agents, script, runner, num_tests, loop_i, gen_result, test_input, trace, leaked>>

\* the verdict is AC: the next iteration of "for i in range(num_tests)"
TrialPassed ==
    /\ st_pc = "verdict"
    /\ result.verdict = "AC"
    /\ loop_i' = loop_i + 1
    /\ st_pc' = "for"
    /\ UNCHANGED <<agents, script, runner, num_tests, gen_result, test_input, report, trace, leaked>>

\* mutant: the loop runs over range(num_tests - 1)
AllPassedOneShort ==
    /\ st_pc = "for"
    /\ loop_i >= num_tests - 1
    /\ report' = Some(PassReport(num_tests))
    /\ st_pc' = "done"
    /\ UNCHANGED <<agents, script, runner, num_tests, loop_i, gen_result, test_input, trace, leaked>>

\* the range is exhausted: the pass report
AllPassed ==
    /\ st_pc = "for"
    /\ loop_i >= num_tests
    /\ report' = Some(PassReport(num_tests))
    /\ st_pc' = "done"
    /\ UNCHANGED <<agents, script, runner, num_tests, loop_i, gen_result, test_input, trace, leaked>>

StressNext ==
    \/ GeneratorFails \/ GeneratorPasses
    \/ StartInteraction \/ SetupRaises
    \/ InteractionResolves \/ Finally \/ InteractionReturns
    \/ TrialFailed \/ TrialPassed \/ AllPassed

StressSpec == StressInit /\ [][StressNext]_vars

(***************************************************************************)
(* run_interaction with a scripted pair of children that answer at once:   *)
(* a judge that plays n rounds (it prints a query line, reads a reply      *)
(* line, exits 1 when the reply is not the expected one and exits 0 after  *)
(* n expected replies) and a solver that answers its first `correct`       *)
(* queries as expected and every later one with a wrong value (correct = 0: *)
(* it is always wrong).  Both answer well inside the budgets, so the clock  *)
(* reading does not move and no fault is injected.                         *)
(***************************************************************************)
Query == <<"q">>
ExpectedReply == <<"c">>
WrongReply == <<"w">>

ScriptInit ==
    /\ RunnerInit
    /\ timeout_total \in TimeoutTotals
    /\ timeout_per_turn \in TimeoutsPerTurn
    /\ CalledDirectly
    /\ AgentsIdle
    /\ \E n \in 1..MaxRounds, c \in 0..MaxRounds :
           /\ c <= n
           /\ script = [n |-> n, correct |-> c, round |-> 1, asked |-> FALSE,
                        jread |-> 0, sread |-> 0]

\* a child runs from its Popen call until the runner's teardown
ScriptRuns(p) == p.state = "running" /\ pc \in SetupPcs \cup LoopPcs

\* the judge prints the query of its current round
JudgeAsks ==
    /\ ScriptRuns(judge_proc)
    /\ ~script.asked
    /\ pipe' = [pipe EXCEPT ![<<"judge", "stdout">>] = @ \o Append(Query, "nl")]
    /\ sent' = [sent EXCEPT ![<<"judge", "stdout">>] = @ \o Append(Query, "nl")]
    /\ script' = [script EXCEPT !.asked = TRUE]
    /\ UNCHANGED <<agents, pc, now, args, stress, disk, procs, sel, written, judge_in,
                   solver_in, wire, judge_buffer, solver_buffer, log_lines, clocks, locals,
                   result>>

\* the solver reads the next line of its stdin and prints its reply
SolverReplies ==
    /\ ScriptRuns(solver_proc)
    /\ Len(solver_in) > script.sread
    /\ pipe' = [pipe EXCEPT ![<<"solver", "stdout">>] =
                    @ \o Append(IF script.sread < script.correct
                                THEN ExpectedReply ELSE WrongReply, "nl")]
    /\ sent' = [sent EXCEPT ![<<"solver", "stdout">>] =
                    @ \o Append(IF script.sread < script.correct
                                THEN ExpectedReply ELSE WrongReply, "nl")]
    /\ script' = [script EXCEPT !.sread = @ + 1]
    /\ UNCHANGED <<agents, pc, now, args, stress, disk, procs, sel, written, judge_in,
                   solver_in, wire, judge_buffer, solver_buffer, log_lines, clocks, locals,
                   result>>

\* the judge reads the reply to its query: a mismatch ends it with code 1,
\* the expected reply starts the next round or, after round n, ends it with 0
JudgeReadsReply ==
    /\ ScriptRuns(judge_proc)
    /\ script.asked
    /\ Len(judge_in) > script.jread
    /\ LET reply == judge_in[script.jread + 1] IN
        IF reply # Append(ExpectedReply, "nl")
        THEN /\ judge_proc' = Exited(1, "self")
             /\ script' = [script EXCEPT !.jread = @ + 1]
        ELSE IF script.round = script.n
        THEN /\ judge_proc' = Exited(0, "self")
             /\ script' = [script EXCEPT !.jread = @ + 1]
        ELSE /\ judge_proc' = judge_proc
             /\ script' = [script EXCEPT !.jread = @ + 1, !.round = @ + 1,
                                         !.asked = FALSE]
    /\ UNCHANGED <<agents, pc, now, args, stress, disk, solver_proc, sel, io, clocks, locals,
                   result>>

ScriptNext ==
    \/ CreateTempFile \/ SpawnJudge \/ SpawnSolver \/ Register
    \/ JudgeExited \/ Continue \/ Select \/ Finally
    \/ JudgeAsks \/ SolverReplies \/ JudgeReadsReply

ScriptSpec == ScriptInit /\ [][ScriptNext]_vars

(***************************************************************************)
(* One trial of interactive_stress_test, step by step: run_interaction     *)
(* with the budgets the stress test passes.  The clock of the model does   *)
(* not reach the total budget of 30 seconds, so the total timeout is not   *)
(* among the steps.                                                        *)
(***************************************************************************)
TrialInit ==
    /\ RunnerInit
    /\ timeout_total = StressTimeoutTotal
    /\ timeout_per_turn = StressTimeoutPerTurn
    /\ CalledDirectly
    /\ script = NoScript
    /\ AgentsIdle

TrialNext ==
    \/ CreateTempFile \/ TempFileError
    \/ SpawnJudge \/ SpawnSolver \/ Register \/ InternalException
    \/ TurnTimeout \/ JudgeExited \/ GraceExpired \/ Continue
    \/ Select
    \/ Finally
    \/ Tick \/ ProcWrite \/ JudgeExits \/ SolverExits

TrialSpec == TrialInit /\ [][TrialNext]_vars

(***************************************************************************)
(* The same trial with children that write more, and at once: up to        *)
(* MaxIoOut bytes in all, so that lines arrive in pieces, several lines    *)
(* arrive in one read and both directions carry lines.  The children act   *)
(* well inside the budgets (the clock does not advance), and setup and     *)
(* select do not fail.                                                     *)
(***************************************************************************)
IoWrite == WriteUpTo(MaxIoOut)

IoNext ==
    \/ CreateTempFile \/ SpawnJudge \/ SpawnSolver \/ Register
    \/ JudgeExited \/ Continue
    \/ Select
    \/ Finally
    \/ IoWrite \/ JudgeExits \/ SolverExits

IoSpec == TrialInit /\ [][IoNext]_vars

(***************************************************************************)
(* The wait of the event loop, lines 167-173.  Here the clock counts       *)
(* milliseconds, so that the polling quantum of 0.1 s and the floor of     *)
(* 0.001 s are whole numbers; the children run, write nothing and do not   *)
(* exit, so every select returns when its timeout is over.                 *)
(***************************************************************************)
\* "0.1" and "0.001", in milliseconds
Quantum == 100
MinWait == 1

\* values of timeout_total and timeout_per_turn, in milliseconds
WaitTotals == {0, 99, 250, 1000}
WaitTurns == {0, 50, 333, 2000}

Min3(a, b, c) == Min2(a, Min2(b, c))
Max2(a, b) == IF a >= b THEN a ELSE b

\* mutant: the remaining time is passed to select as it is
SelectTimeoutNoFloor(el, idle, total, per_turn) ==
    Min3(total - el, per_turn - idle, Quantum)

\* "max(0.001, min(timeout_total - elapsed, timeout_per_turn - idle_time, 0.1))"
SelectTimeout(el, idle, total, per_turn) ==
    Max2(MinWait, Min3(total - el, per_turn - idle, Quantum))

WaitInit ==
    /\ RunnerInit
    /\ timeout_total \in WaitTotals
    /\ timeout_per_turn \in WaitTurns
    /\ CalledDirectly
    /\ script = NoScript
    /\ AgentsIdle

\* "events = sel.select(timeout=...)" with no stream readable: the call
\* returns an empty list when the timeout is over; elapsed and idle_time are
\* the values computed at the top of this iteration
SelectWaits ==
    /\ pc = "select"
    /\ \A s \in Streams : ~Readable(s)
    /\ now' = now + SelectTimeout(now - start_time, now - last_activity,
                                  timeout_total, timeout_per_turn)
    /\ pc' = "loop"
    /\ UNCHANGED <<agents, script, args, stress, disk, procs, sel, io, clocks, locals, result>>

WaitNext ==
    \/ CreateTempFile \/ SpawnJudge \/ SpawnSolver \/ Register
    \/ TotalTimeout \/ TurnTimeout \/ Continue
    \/ SelectWaits
    \/ Finally

WaitSpec == WaitInit /\ [][WaitNext]_vars

(***************************************************************************)
(* Forwarding to a solver that does not read.  The pipes are opened with   *)
(* bufsize=0 and are blocking, so "solver_proc.stdin.write(line + b'\n')"  *)
(* returns only when the pipe has taken the line: with a solver that runs  *)
(* and never reads its stdin, the write of the line that no longer fits    *)
(* does not return.  The clock counts milliseconds; the judge writes to    *)
(* its stdout and may exit, the solver neither writes nor exits.           *)
(***************************************************************************)
\* the judge writes one byte to its stdout
JudgeWrites ==
    /\ pc \in LoopPcs
    /\ judge_proc.state = "running"
    /\ written < MaxIoOut
    /\ \E b \in OutBytes :
        /\ pipe' = [pipe EXCEPT ![<<"judge", "stdout">>] = Append(@, b)]
        /\ sent' = [sent EXCEPT ![<<"judge", "stdout">>] = Append(@, b)]
    /\ written' = written + 1
    /\ UNCHANGED <<agents, script, pc, now, args, stress, disk, procs, sel, judge_in, solver_in,
                   wire, judge_buffer, solver_buffer, log_lines, clocks, locals, result>>

\* a batch of events whose forwarded lines all fit into the solver's pipe
SelectFits ==
    /\ Select
    /\ Len(solver_in') <= PipeLines

\* what "line, judge_buffer = judge_buffer.split(b'\n', 1)" leaves after k passes
RECURSIVE AfterLines(_, _)
AfterLines(buf, k) ==
    IF k = 0 \/ ~HasNewline(buf) THEN buf
    ELSE AfterLines(SubSeq(buf, FirstNewline(buf) + 1, Len(buf)), k - 1)

\* The judge's chunk completes more lines than the solver's pipe has room
\* for: the lines that fit are logged and written, the next one is logged
\* (line 192) and its write (line 196) blocks.
WriteBlocks ==
    /\ pc = "select"
    /\ Poll(solver_proc) = None
    /\ LET buf == judge_buffer \o ReadData(<<"judge", "stdout">>)
           lines == CompleteLines(buf)
           fit == PipeLines - Len(solver_in)
       IN  /\ ReadData(<<"judge", "stdout">>) # <<>>
           /\ fit >= 0 /\ Len(lines) > fit
           /\ log_lines' = log_lines
                  \o LineEntries("JUDGE -> SOLVER", SubSeq(lines, 1, fit + 1))
           /\ solver_in' = solver_in \o WithTerminators(SubSeq(lines, 1, fit))
           /\ wire' = wire \o Writes("solver", SubSeq(lines, 1, fit), Len(log_lines))
           /\ judge_buffer' = AfterLines(buf, fit + 1)
    /\ pipe' = [pipe EXCEPT ![<<"judge", "stdout">>] = Drop(@, ReadSize)]
    /\ last_activity' = now
    /\ pc' = "write"
    /\ UNCHANGED <<agents, script, now, args, stress, disk, procs, sel, written, sent, judge_in,
                   solver_buffer, start_time, solver_exited, solver_exit_time, locals,
                   result>>

\* time passes while the runner is inside the write
BlockedWait ==
    /\ pc = "write"
    /\ now - start_time <= timeout_total + MaxBlocked * Quantum
    /\ now' = now + Quantum
    /\ UNCHANGED <<agents, script, pc, args, stress, disk, procs, sel, io, clocks, locals, result>>

BlockNext ==
    \/ CreateTempFile \/ SpawnJudge \/ SpawnSolver \/ Register
    \/ TotalTimeout \/ TurnTimeout \/ JudgeExited \/ Continue
    \/ SelectFits \/ SelectWaits \/ WriteBlocks \/ BlockedWait
    \/ Finally
    \/ JudgeWrites \/ JudgeExits

BlockSpec == WaitInit /\ [][BlockNext]_vars

(***************************************************************************)
(* Calls of run_interaction one after the other.  Everything the function  *)
(* works with is a local variable (lines 55-112) or belongs to a process   *)
(* or file it creates, so a new call starts from new values; the clock     *)
(* goes on.  `trace` keeps, for each call that has returned, when the next *)
(* call started and whether the transcript of the returned call had        *)
(* entries.  A process that outlived the teardown of the previous call     *)
(* goes on running; no variable of the new call refers to it.              *)
(***************************************************************************)
\* mutant: the transcript list outlives the call (a module-level list)
TranscriptKept == log_lines' = log_lines

\* "log_lines: list[str] = []"
FreshTranscript == log_lines' = <<>>

CallAgain ==
    /\ pc = "done"
    /\ Len(trace) < MaxCalls - 1
    /\ trace' = Append(trace, [ev |-> "call", test |-> Len(trace) + 2,
                               data |-> <<now, log_lines # <<>> >>])
    /\ FreshTranscript
    /\ start_time' = now
    /\ files' = {}
    /\ unlink_failed' = {}
    /\ judge_proc' = NoProc
    /\ solver_proc' = NoProc
    /\ sel' = "None"
    /\ pipe' = [s \in Streams |-> <<>>]
    /\ sent' = [s \in Streams |-> <<>>]
    /\ written' = 0
    /\ judge_in' = <<>>
    /\ solver_in' = <<>>
    /\ wire' = <<>>
    /\ judge_buffer' = <<>>
    /\ solver_buffer' = <<>>
    /\ last_activity' = 0
    /\ solver_exited' = FALSE
    /\ solver_exit_time' = None
    /\ elapsed' = 0
    /\ idle_time' = 0
    /\ judge_poll' = None
    /\ solver_poll' = None
    /\ result' = NoResult
    /\ pc' = "tempfiles"
    /\ UNCHANGED <<agents, script, now, args, st_pc, num_tests, loop_i, gen_result, test_input,
                   report, leaked>>

\* the calls are made with the stress test's budgets; setup and select do
\* not fail
CallsNext ==
    \/ CreateTempFile \/ SpawnJudge \/ SpawnSolver \/ Register
    \/ TurnTimeout \/ JudgeExited \/ GraceExpired \/ Continue
    \/ Select
    \/ Finally
    \/ Tick \/ ProcWrite \/ JudgeExits \/ SolverExits
    \/ CallAgain

CallsSpec == TrialInit /\ [][CallsNext]_vars

(***************************************************************************)
(* InteractiveSolver.solve and continue_solving (solver.py): the loop of   *)
(* model turns and the gate on the result of interactive_stress_test.  A   *)
(* tool result is a string of which the code tests two substrings; it is   *)
(* modelled by its kind (which return statement of the tool produced it)   *)
(* and the set of the phrases it contains.                                 *)
(***************************************************************************)
PassedPhrase == "INTERACTIVE STRESS TEST PASSED"
FailedPhrase == "INTERACTIVE TEST FAILED"

\* the runner has no call in progress while an agent runs
RunnerIdle ==
    /\ RunnerInit
    /\ timeout_total = StressTimeoutTotal
    /\ timeout_per_turn = StressTimeoutPerTurn
    /\ CalledDirectly
    /\ script = NoScript

\* what interactive_stress_test returns to the agent: the pass report; the
\* failure report, which quotes the test input and the transcript of the
\* failed trial; the generator-error report, which quotes the generator's
\* output; and the "Error: ..." string of _run_stress_test or of an exception
StressResults ==
    {[kind |-> "pass", text |-> {PassedPhrase}]}
    \cup {[kind |-> "fail", text |-> {FailedPhrase} \cup q] :
             q \in SUBSET {PassedPhrase}}
    \cup {[kind |-> "generator", text |-> {"GENERATOR ERROR"} \cup q] :
             q \in SUBSET {PassedPhrase, FailedPhrase}}
    \cup {[kind |-> "error", text |-> {"Error"}]}

\* the function calls of a model response, each with the result of its tool
FunctionCalls ==
    {[name |-> "interactive_stress_test", code |-> c, result |-> r] :
        c \in {"", "A", "B"}, r \in StressResults}
    \cup {[name |-> "run_python_code", code |-> "",
           result |-> [kind |-> "output", text |-> {}]],
          [name |-> "unknown", code |-> "",
           result |-> [kind |-> "error", text |-> {"Unknown function"}]]}

\* Python's truth value of a str | None
NonEmpty(c) == c # None /\ c[1] # ""

\* lines 505-512: '"INTERACTIVE STRESS TEST PASSED" in result' is tested first
Gate(g, fc) ==
    IF fc.name = "interactive_stress_test" /\ PassedPhrase \in fc.result.text
    THEN [passed |-> TRUE, verified |-> Some(fc.code)]
    ELSE IF fc.name = "interactive_stress_test" /\ FailedPhrase \in fc.result.text
    THEN [passed |-> FALSE, verified |-> None]
    ELSE g

\* "for fc in function_calls": the gate after all calls of a response
RECURSIVE GateAfter(_, _)
GateAfter(g, fcs) ==
    IF fcs = <<>> THEN g ELSE GateAfter(Gate(g, Head(fcs)), Tail(fcs))

\* history: the codes with a pass report and no failure report after it
RECURSIVE PassedAfter(_, _)
PassedAfter(ps, fcs) ==
    IF fcs = <<>> THEN ps
    ELSE LET fc == Head(fcs) IN
         PassedAfter(IF fc.name = "interactive_stress_test" /\ fc.result.kind = "pass"
                     THEN ps \cup {fc.code}
                     ELSE IF fc.name = "interactive_stress_test"
                             /\ fc.result.kind = "fail"
                     THEN {} ELSE ps,
                     Tail(fcs))

\* _translate_to_cpp: None for no code, else what the translator returns
CppOf(code) == IF NonEmpty(code) THEN {None, Some("cpp")} ELSE {None}

\* solve() is called: lines 389-392
SolveInit ==
    /\ RunnerIdle
    /\ PreprocessorIdle
    /\ sv_pc = "turn"
    /\ method = "solve"
    /\ max_attempts \in 0..MaxTurns
    /\ turn = 0
    /\ last_code = None
    /\ stress_test_passed = FALSE
    /\ verified_code = None
    /\ self_last_code = None
    /\ self_last_verified_code = None
    /\ passed_codes = {}
    /\ solved = None

\* "return verified_code, cpp_code, True" (lines 461-466, 532-537)
ReturnVerified(v) ==
    /\ self_last_verified_code' = v
    /\ self_last_code' = v
    /\ \E cpp \in CppOf(v) : solved' = Some([code |-> v, cpp |-> cpp, success |-> TRUE])
    /\ sv_pc' = "returned"

\* generate_content raised 30 times in a row: the exception leaves the method
RequestFails ==
    /\ sv_pc = "turn"
    /\ turn < max_attempts
    /\ sv_pc' = "raised"
    /\ UNCHANGED <<preprocessing, runner, stress, script, method, max_attempts, turn, last_code,
                   stress_test_passed, verified_code, self_last_code,
                   self_last_verified_code, passed_codes, solved>>

\* one iteration of "for turn in range(max_attempts)" with a response that
\* has content: the code block of its text, whether the text contains
\* ALL_TESTS_PASSED, and its function calls
Turn ==
    /\ sv_pc = "turn"
    /\ turn < max_attempts
    /\ \E code \in {None, Some("A"), Some("B")}, claims \in BOOLEAN,
          fcs \in UNION {[1..n -> FunctionCalls] : n \in 0..MaxToolCalls} :
        LET lc == IF NonEmpty(code) THEN code ELSE last_code
            slc == IF NonEmpty(code) THEN code ELSE self_last_code
            g == GateAfter([passed |-> stress_test_passed,
                            verified |-> verified_code], fcs)
        IN
        /\ last_code' = lc
        /\ IF claims /\ fcs = <<>>
           THEN IF stress_test_passed /\ NonEmpty(verified_code)
                THEN /\ ReturnVerified(verified_code)
                     /\ UNCHANGED <<turn, stress_test_passed, verified_code,
                                    passed_codes>>
                ELSE /\ turn' = turn + 1
                     /\ self_last_code' = slc
                     /\ UNCHANGED <<sv_pc, stress_test_passed, verified_code,
                                    self_last_verified_code, passed_codes, solved>>
           ELSE /\ stress_test_passed' = g.passed
                /\ verified_code' = g.verified
                /\ passed_codes' = PassedAfter(passed_codes, fcs)
                /\ IF fcs # <<>> /\ g.passed /\ NonEmpty(g.verified)
                   THEN ReturnVerified(g.verified) /\ turn' = turn
                   ELSE /\ turn' = turn + 1
                        /\ self_last_code' = slc
                        /\ UNCHANGED <<sv_pc, self_last_verified_code, solved>>
    /\ UNCHANGED <<preprocessing, runner, stress, script, method, max_attempts>>

\* "return last_code, cpp_code, False" (lines 547-551): the range is
\* exhausted, or the response had no content ("break")
ReturnLast ==
    /\ sv_pc = "turn"
    /\ self_last_code' = last_code
    /\ \E cpp \in CppOf(last_code) :
          solved' = Some([code |-> last_code, cpp |-> cpp, success |-> FALSE])
    /\ sv_pc' = "returned"
    /\ UNCHANGED <<preprocessing, runner, stress, script, method, max_attempts, turn, last_code,
                   stress_test_passed, verified_code, self_last_verified_code,
                   passed_codes>>

\* continue_solving() is called after a call that returned: lines 626-629
ContinueSolving ==
    /\ sv_pc = "returned"
    /\ method = "solve"
    /\ method' = "continue_solving"
    /\ max_attempts' \in 0..MaxTurns
    /\ turn' = 0
    /\ last_code' = (IF NonEmpty(self_last_code) THEN self_last_code
                     ELSE self_last_verified_code)
    /\ stress_test_passed' = FALSE
    /\ verified_code' = None
    /\ passed_codes' = {}
    /\ solved' = None
    /\ sv_pc' = "turn"
    /\ UNCHANGED <<preprocessing, runner, stress, script, self_last_code, self_last_verified_code>>

SolveNext == RequestFails \/ Turn \/ ReturnLast \/ ContinueSolving

SolveSpec == SolveInit /\ [][SolveNext]_vars

(***************************************************************************)
(* InteractivePreprocessor.generate (preprocessor.py) and                  *)
(* JudgeValidator.validate (judge_validator.py).  The validator's reply is *)
(* a string of which validate tests substrings; it is modelled by the set  *)
(* of the words it is made of.                                             *)
(***************************************************************************)
\* "for retry in range(10)" / "if retry == 9: return None"
RequestTries == 10

\* Python's "needle in text", for the three needles validate looks for: the
\* word INVALID contains VALID, and INVALID: contains both
Contains(text, needle) ==
    \E w \in text :
        \/ w = needle
        \/ needle = "VALID" /\ w \in {"INVALID", "INVALID:"}
        \/ needle = "INVALID" /\ w = "INVALID:"

\* JudgeValidator.validate, lines 114-152: the first component of its result
Validate(o) ==
    /\ o.kind = "reply"
    /\ Contains(o.text, "VALID")
    /\ ~Contains(o.text, "INVALID")

\* mutant: the pair is returned whatever the validator said
ReturnsUnvalidated(is_valid) == TRUE

\* "if is_valid: return generator_code, judge_code"
ReturnsPair(is_valid) == is_valid

\* generate() is called
PrepInit ==
    /\ RunnerIdle
    /\ sv_pc = "idle"
    /\ method = "solve"
    /\ max_attempts = 0
    /\ turn = 0
    /\ last_code = None
    /\ stress_test_passed = FALSE
    /\ verified_code = None
    /\ self_last_code = None
    /\ self_last_verified_code = None
    /\ passed_codes = {}
    /\ solved = None
    /\ pp_pc = "request"
    /\ gen_max_attempts \in 0..MaxGenAttempts
    /\ attempt = 0
    /\ retry = 0
    /\ requests = <<>>
    /\ response = None
    /\ validation = None
    /\ generated = None

\* one more call of generate_content in the current attempt
Requested ==
    IF Len(requests) = attempt THEN Append(requests, 1)
    ELSE [requests EXCEPT ![attempt + 1] = @ + 1]

\* "except Exception": generate_content raised; the tenth failure in a row
\* ends generate with None
RequestRaises ==
    /\ pp_pc = "request"
    /\ attempt < gen_max_attempts
    /\ requests' = Requested
    /\ IF retry = RequestTries - 1
       THEN /\ generated' = None
            /\ pp_pc' = "returned"
            /\ retry' = retry
       ELSE /\ retry' = retry + 1
            /\ UNCHANGED <<pp_pc, generated>>
    /\ UNCHANGED <<solving, runner, stress, script, gen_max_attempts, attempt,
                   response, validation>>

\* "continue": the next attempt starts with "for retry in range(10)"
NextAttempt ==
    /\ attempt' = attempt + 1
    /\ retry' = 0
    /\ pp_pc' = "request"
    /\ generated' = generated

\* the request succeeded but the response has no candidates or no content
EmptyResponse ==
    /\ pp_pc = "request"
    /\ attempt < gen_max_attempts
    /\ requests' = Requested
    /\ response' = None
    /\ NextAttempt
    /\ UNCHANGED <<solving, runner, stress, script, gen_max_attempts, validation>>

\* the request succeeded: lines 179-223, the blocks are extracted and, when
\* both are there, validated; an accepted pair is returned
Respond ==
    /\ pp_pc = "request"
    /\ attempt < gen_max_attempts
    /\ requests' = Requested
    /\ \E generator_code \in {None, Some("g1"), Some("g2")},
          judge_code \in {None, Some("j1"), Some("j2")} :
        /\ response' = Some([generator |-> generator_code, judge |-> judge_code])
        /\ IF generator_code = None \/ judge_code = None
           THEN /\ NextAttempt
                /\ validation' = validation
           ELSE \E o \in
                    \* validate: its request failed five times, the response
                    \* had no candidates or no content, or the reply had text
                    {[kind |-> k, text |-> {}] :
                        k \in {"request_failed", "no_response", "no_content"}}
                    \cup {[kind |-> "reply", text |-> t] :
                             t \in SUBSET {"VALID", "INVALID", "INVALID:", "other"}} :
                /\ validation' = Some([generator |-> generator_code[1],
                                       judge |-> judge_code[1],
                                       is_valid |-> Validate(o)])
                /\ IF ReturnsPair(Validate(o))
                   THEN /\ generated' = Some(<<generator_code[1], judge_code[1]>>)
                        /\ pp_pc' = "returned"
                        /\ UNCHANGED <<attempt, retry>>
                   ELSE NextAttempt
    /\ UNCHANGED <<solving, runner, stress, script, gen_max_attempts>>

\* the range of attempts is exhausted: "return None"
Exhausted ==
    /\ pp_pc = "request"
    /\ attempt >= gen_max_attempts
    /\ generated' = None
    /\ pp_pc' = "returned"
    /\ UNCHANGED <<solving, runner, stress, script, gen_max_attempts, attempt, retry,
                   requests, response, validation>>

PrepNext == RequestRaises \/ EmptyResponse \/ Respond \/ Exhausted

PrepSpec == PrepInit /\ [][PrepNext]_vars

(***************************************************************************)
(* Properties                                                              *)
(***************************************************************************)
Returned == pc = "done"

TotalMessage == <<"Total timeout exceeded", timeout_total>>
TurnMessage == <<"Turn timeout exceeded", timeout_per_turn>>
GraceText == "Solver exited but judge didn't respond"

IsException(r) == r.error_message # None /\ r.error_message[1] = "exception"
IsGraceRE(r) == r.error_message # None /\ r.error_message[1] = GraceText

\* the judge / the solver ended on its own while the loop was running
JudgeExitedItself == judge_proc.by = "self"
SolverExitedItself == solver_proc.by = "self"

\* what the clocks show at the iteration that resolved the trial (time is
\* not advanced after the return statement)
ElapsedAtReturn == now - start_time
IdleAtReturn == now - last_activity

ExpectedVerdict(c) ==
    CASE c = 0 -> "AC" [] c = 1 -> "WA" [] c = 2 -> "PE" [] OTHER -> "RE"

CodeSamples == {-15, -11, -9, -1, 0, 1, 2, 3, 7, 255}

\* C1: the verdict mapping is total on the integers and maps 0 to AC, 1 to WA,
\* 2 to PE and every other code to RE, never to TLE; whenever run_interaction
\* has polled an exit code of the judge, its verdict is the mapping of that code.
C1_VerdictMapping ==
    /\ \A c \in CodeSamples :
          /\ _exit_code_to_verdict(c) = ExpectedVerdict(c)
          /\ _exit_code_to_verdict(c) # "TLE"
    /\ judge_poll # None =>
          /\ result.verdict = ExpectedVerdict(judge_poll[1])
          /\ result.verdict # "TLE"

\* a judge killed by a signal (negative code) has been mapped to RE
C1_Witness ==
    Returned /\ judge_poll = Some(-11) /\ result.verdict = "RE"

\* C2: a call that returns yields exactly one verdict of the enumeration, and
\* the result fixed by a return statement is never changed afterwards.
C2_OneFinalVerdict ==
    /\ [](Returned => result.verdict \in Verdict)
    /\ [][result # NoResult => result' = result]_vars

\* a TLE was returned although the judge was still running and unread output
\* was pending: teardown ended the judge and the verdict stayed
C2_Witness ==
    /\ Returned /\ result.verdict = "TLE"
    /\ judge_proc.by \in {"terminate", "kill"}
    /\ \E s \in Streams : pipe[s] # <<>>

\* C3 as stated: exit_code is present iff the verdict is AC, WA, PE or an RE
\* caused by a recorded solver exit code.
C3_Original ==
    Returned =>
        (result.exit_code # None <=>
            \/ result.verdict \in {"AC", "WA", "PE"}
            \/ result.verdict = "RE" /\ IsGraceRE(result))

\* C3 amended: exit_code is present iff the verdict was derived from a process
\* exit code - the judge's (AC, WA, PE, and RE for a judge code outside
\* {0,1,2}) or the solver's (RE after the grace window); it is absent for TLE
\* and for the RE of an internal exception.
C3_ExitCodePresence ==
    Returned =>
        /\ result.exit_code # None <=> (judge_poll # None \/ IsGraceRE(result))
        /\ judge_poll # None => result.exit_code = judge_poll
        /\ result.verdict = "TLE" => result.exit_code = None
        /\ IsException(result) => result.exit_code = None

\* an RE derived from the judge's exit code 3 carries that code
C3_Witness ==
    /\ Returned /\ result.verdict = "RE" /\ judge_poll = Some(3)
    /\ result.exit_code = Some(3) /\ ~IsGraceRE(result)

\* C4: AC, WA and PE carry exit code 0, 1 and 2, which is the judge's own
\* exit code and not the solver's; a verdict derived from any other judge
\* exit code is RE.
C4_JudgeCode ==
    Returned =>
        /\ result.verdict = "AC" => result.exit_code = Some(0)
        /\ result.verdict = "WA" => result.exit_code = Some(1)
        /\ result.verdict = "PE" => result.exit_code = Some(2)
        /\ result.verdict \in {"AC", "WA", "PE"} =>
              JudgeExitedItself /\ result.exit_code = judge_proc.code
        /\ (judge_poll # None /\ judge_poll[1] \notin {0, 1, 2}) =>
              result.verdict = "RE"

\* AC although the solver had exited with code 7
C4_Witness ==
    /\ Returned /\ result.verdict = "AC"
    /\ SolverExitedItself /\ solver_proc.code = Some(7)

\* C5: a TLE result has no exit_code, its message names the exceeded budget,
\* and that budget was exceeded at the loop check that returned it.
C5_Timeout ==
    (Returned /\ result.verdict = "TLE") =>
        /\ result.exit_code = None
        /\ \/ /\ result.error_message = TotalMessage
              /\ result.time = ElapsedAtReturn
              /\ ElapsedAtReturn > timeout_total
           \/ /\ result.error_message = TurnMessage
              /\ idle_time = IdleAtReturn
              /\ IdleAtReturn > timeout_per_turn

\* a turn timeout while the total budget was not used up
C5_Witness ==
    /\ Returned /\ result.verdict = "TLE"
    /\ result.error_message = TurnMessage
    /\ ElapsedAtReturn <= timeout_total

\* C6 as stated, for trials without internal exception: a judge that exited
\* with code 0 before timeout_total had elapsed yields AC.
C6_Original ==
    (/\ Returned
     /\ ~IsException(result)
     /\ JudgeExitedItself /\ judge_proc.code = Some(0)
     /\ ElapsedAtReturn < timeout_total)
        => result.verdict = "AC"

\* C6 amended: if the judge has exited with code 0 and, at the loop iteration
\* that resolves the trial, neither the total nor the idle budget is found
\* exceeded (and no internal exception occurred), the result is AC with exit
\* code 0, whatever the solver did.
C6_JudgeZero ==
    (/\ Returned
     /\ ~IsException(result)
     /\ JudgeExitedItself /\ judge_proc.code = Some(0)
     /\ ElapsedAtReturn <= timeout_total
     /\ IdleAtReturn <= timeout_per_turn)
        => (result.verdict = "AC" /\ result.exit_code = Some(0))

\* AC although the solver exited early, more than the grace window ago
C6_Witness ==
    /\ Returned /\ result.verdict = "AC"
    /\ SolverExitedItself
    /\ solver_exited /\ solver_exit_time # None
    /\ now - solver_exit_time[1] > Grace

\* the solver's stdout has carried nothing
SolverSilent ==
    /\ pipe[<<"solver", "stdout">>] = <<>>
    /\ solver_buffer = <<>>
    /\ judge_in = <<>>
    /\ \A i \in 1..Len(log_lines) : log_lines[i].tag # "SOLVER -> JUDGE"

\* C7: after a judge line was forwarded, with a solver that wrote no response
\* and a judge that is still running, the loop check that finds the idle time
\* above timeout_per_turn while the total budget is not exceeded returns TLE
\* with the turn-timeout message and no exit code.  The step constrained is
\* the runner's own (the one that leaves the loop top); a process writing to
\* its pipe meanwhile is not a step of the check.
C7_TurnTimeout ==
    [][(/\ pc = "loop" /\ pc' # "loop"
        /\ solver_in # <<>> /\ SolverSilent
        /\ judge_proc.state = "running"
        /\ now - last_activity > timeout_per_turn
        /\ now - start_time <= timeout_total)
          => (/\ pc' = "finally"
              /\ result'.verdict = "TLE"
              /\ result'.error_message = TurnMessage
              /\ result'.exit_code = None)]_vars

\* the turn timeout of a silent, still running solver
C7_Witness ==
    /\ Returned /\ result.verdict = "TLE" /\ result.error_message = TurnMessage
    /\ solver_in # <<>> /\ SolverSilent
    /\ judge_proc.by \in {"terminate", "kill"}
    /\ solver_proc.by \in {"terminate", "kill"}
    /\ ElapsedAtReturn <= timeout_total

\* C8 as stated, for trials without internal exception: when the judge has
\* not exited, the result is TLE.
C8_Original ==
    (Returned /\ ~IsException(result) /\ ~JudgeExitedItself)
        => result.verdict = "TLE"

\* C8 amended: when the judge does not exit, the result is TLE - with the
\* total-timeout message when the idle budget is not exceeded, i.e. when the
\* turns were fast - unless the trial was resolved before by the expired grace
\* window of an exited solver or by an internal exception.
C8_JudgeNeverExits ==
    (/\ Returned
     /\ ~JudgeExitedItself
     /\ ~IsGraceRE(result) /\ ~IsException(result))
        => /\ result.verdict = "TLE"
           /\ IdleAtReturn <= timeout_per_turn =>
                 /\ result.error_message = TotalMessage
                 /\ ElapsedAtReturn > timeout_total

\* total timeout with a running judge although there was activity within the
\* last timeout_per_turn seconds
C8_Witness ==
    /\ Returned /\ result.verdict = "TLE" /\ result.error_message = TotalMessage
    /\ ~JudgeExitedItself
    /\ last_activity > start_time
    /\ IdleAtReturn <= timeout_per_turn

\* the runner recorded the solver's exit more than the grace window ago and
\* the judge has not exited
GraceWindowOver ==
    /\ SolverExitedItself
    /\ solver_exited /\ solver_exit_time # None
    /\ now - solver_exit_time[1] > Grace
    /\ ~JudgeExitedItself

GraceOutcome ==
    /\ result.verdict = "RE"
    /\ result.exit_code = solver_proc.code
    /\ result.error_message = <<GraceText, solver_proc.code[1]>>

\* C9 as stated, for trials without internal exception: the solver exited
\* with code c, the grace window passed without the judge exiting, and the
\* result is RE with exit_code c and the judge-did-not-respond message.
C9_Original ==
    (Returned /\ ~IsException(result) /\ GraceWindowOver) => GraceOutcome

\* C9 amended: ... provided that the loop iteration that finds the grace
\* window over finds neither the total nor the idle budget exceeded (the
\* timeouts are checked first and yield TLE), and no internal exception
\* occurred; the window is measured from the iteration that recorded the exit.
C9_GraceWindow ==
    (/\ Returned /\ ~IsException(result) /\ GraceWindowOver
     /\ ElapsedAtReturn <= timeout_total
     /\ IdleAtReturn <= timeout_per_turn)
        => GraceOutcome

\* RE with the solver's exit code 7 after the grace window
C9_Witness ==
    /\ Returned /\ GraceWindowOver /\ GraceOutcome
    /\ result.exit_code = Some(7)

\* C10 as stated: after the return none of the three temporary files exists.
C10_Original ==
    Returned => files = {}

\* C10 amended: after the return, under any outcome, the only temporary files
\* that may still exist are those whose deletion itself failed (the failure
\* is swallowed); every other one of the three is gone.
C10_TempFilesDeleted ==
    Returned => files \subseteq unlink_failed

\* a timeout result with all three files gone
C10_Witness ==
    /\ Returned /\ files = {} /\ unlink_failed = {}
    /\ result.verdict = "TLE"

\* how a child that has had a signal call fail ended up
SignalFailed == {"kill_only", "kill_failed", "signals_failed"}
\* a child that is still alive although the teardown has handled it
Outlived == {"kill_failed", "signals_failed"}

BothStarted == judge_proc.state # "none" /\ solver_proc.state # "none"

\* C12: once both processes are started run_interaction does not raise; an
\* exception raised while the selector is set up or inside the event loop
\* leads to the teardown with the result RE, the exception's description as
\* error message and no exit code; the teardown, whatever fails in it, ends
\* in the return of the result decided before it.
C12_NeverRaises ==
    /\ [][BothStarted => pc' # "raised"]_vars
    /\ [][(BothStarted /\ pc \in {"register", "select"} /\ pc' = "finally")
            => (/\ result'.verdict = "RE"
                /\ result'.error_message = <<"exception", pc>>
                /\ result'.exit_code = None)]_vars
    /\ [][pc = "finally" => (pc' = "done" /\ result' = result)]_vars

\* the selector raised inside the loop, and in the teardown a signal call and
\* an unlink failed: the result returned is the RE of the exception
C12_Witness ==
    /\ Returned
    /\ IsException(result) /\ result.error_message[2] = "select"
    /\ result.verdict = "RE" /\ result.exit_code = None
    /\ unlink_failed # {}
    /\ judge_proc.by \in SignalFailed

(***************************************************************************)
(* Properties of interactive_stress_test                                   *)
(***************************************************************************)
StressReturned == st_pc = "done"

Event(e, n, d) == [ev |-> e, test |-> n, data |-> d]
EventsOf(e) == {k \in 1..Len(trace) : trace[k].ev = e}
GeneratorFailed == gen_result # None /\ gen_result[1].status # "passed"
IsReport(kind) == report # None /\ report[1].kind = kind

\* C13: when the generator execution of trial i has a status other than
\* "passed", the run has stopped: it has returned the generator-error report
\* naming trial i (1-based), that execution is the last thing the run started,
\* no interaction was started for trial i (with i = 1: none at all), and the
\* generator ran once for each trial up to i.
C13_GeneratorError ==
    GeneratorFailed =>
        /\ StressReturned
        /\ report = Some(GeneratorErrorReport(loop_i + 1, gen_result[1]))
        /\ report[1].test = loop_i + 1
        /\ trace[Len(trace)].ev = "generator"
        /\ trace[Len(trace)].test = report[1].test
        /\ \A k \in EventsOf("interaction") : trace[k].test < report[1].test
        /\ Cardinality(EventsOf("generator")) = report[1].test
        /\ Cardinality(EventsOf("interaction")) = report[1].test - 1

\* the generator failed in the second trial, after a first trial that passed
C13_Witness ==
    /\ StressReturned /\ GeneratorFailed
    /\ IsReport("GENERATOR ERROR") /\ report[1].test = 2
    /\ Cardinality(EventsOf("interaction")) = 1

\* C14: a verdict other than AC ends the run: it is the last thing that
\* happened, every earlier verdict was AC, and once the run has returned the
\* failure report names that trial, which is the smallest one whose verdict
\* is not AC; no generator execution or interaction follows it.
C14_FailFast ==
    \A k \in EventsOf("verdict") :
        trace[k].data # "AC" =>
            /\ k = Len(trace)
            /\ st_pc \in {"verdict", "done"}
            /\ \A j \in EventsOf("verdict") : j < k =>
                    trace[j].data = "AC" /\ trace[j].test < trace[k].test
            /\ StressReturned =>
                    IsReport("INTERACTIVE TEST FAILED")
                    /\ report[1].test = trace[k].test
                    /\ report[1].verdict = trace[k].data

\* the second trial failed after a first trial with verdict AC
C14_Witness ==
    /\ StressReturned
    /\ IsReport("INTERACTIVE TEST FAILED") /\ report[1].test = 2
    /\ Cardinality(EventsOf("verdict")) = 2
    /\ trace[Len(trace)] = Event("verdict", 2, "WA")

\* the events of a run in which trials 1..n all passed, in order
RECURSIVE PassedTrials(_)
PassedTrials(n) ==
    IF n <= 0 THEN {<<>>}
    ELSE {t \o <<Event("generator", n, d), Event("interaction", n, d),
                  Event("verdict", n, "AC")>> :
             t \in PassedTrials(n - 1), d \in TestInputs}

\* C15: the run returns the pass report exactly when num_tests trials were
\* run, in the order 1..num_tests, each with a generator execution that
\* passed and an interaction with verdict AC; the report states num_tests.
C15_PassReport ==
    StressReturned =>
        /\ IsReport("INTERACTIVE STRESS TEST PASSED") <=> trace \in PassedTrials(num_tests)
        /\ IsReport("INTERACTIVE STRESS TEST PASSED") => report[1].count = num_tests

\* two trials were asked for and both passed
C15_Witness ==
    /\ StressReturned
    /\ num_tests = 2
    /\ report = Some(PassReport(2))
    /\ Len(trace) = 6

\* the processes alive now: those of the call in progress or just finished,
\* and those earlier calls left behind
AliveNow ==
    leaked \cup {[role |-> r, test |-> 0, by |-> ProcOf(r).by] :
                    r \in {r \in {"judge", "solver"} : ProcOf(r).state = "running"}}
AliveAs(r) == {p \in AliveNow : p.role = r}

\* every interaction that was started has returned before anything else is
\* started, and the trials come in the order 1, 2, ...
InIndexOrder ==
    /\ \A k \in EventsOf("interaction") :
           k < Len(trace) => trace[k + 1] = Event("verdict", trace[k].test, trace[k + 1].data)
    /\ \A k \in EventsOf("verdict") :
           k < Len(trace) => /\ trace[k + 1].ev = "generator"
                             /\ trace[k + 1].test = trace[k].test + 1
    /\ \A k \in EventsOf("generator") :
           k < Len(trace) => trace[k + 1].ev = "interaction" /\ trace[k + 1].test = trace[k].test
    /\ trace # <<>> => trace[1].ev = "generator" /\ trace[1].test = 1

C17_TrialData ==
    /\ \A k \in EventsOf("interaction") :
           /\ k > 1
           /\ trace[k - 1] = Event("generator", trace[k].test, trace[k].data)
    /\ \A j, k \in EventsOf("generator") : trace[j].test = trace[k].test => j = k
    /\ st_pc \in {"call", "interaction", "verdict"} =>
           /\ gen_result # None
           /\ test_input = OrElse(gen_result[1].actual_output, "")
    /\ IsReport("INTERACTIVE TEST FAILED") =>
           /\ report[1].test = loop_i + 1
           /\ trace[Len(trace)] = Event("verdict", report[1].test, report[1].verdict)
           /\ trace[Len(trace) - 1] = Event("interaction", report[1].test, report[1].input)
           /\ trace[Len(trace) - 2] = Event("generator", report[1].test, report[1].input)
           /\ report[1].input = OrElse(gen_result[1].actual_output, "")
           /\ report[1].verdict = result.verdict
           /\ report[1].exit_code = result.exit_code
           /\ report[1].error = result.error_message
           /\ report[1].log = log_lines

\* the second trial failed on an input that differs from the first trial's;
\* the report carries the second input, an exit code and a transcript
C17_Witness ==
    /\ IsReport("INTERACTIVE TEST FAILED") /\ report[1].test = 2
    /\ report[1].input = "y" /\ trace[1].data = "x"
    /\ report[1].exit_code = Some(1)
    /\ report[1].log # <<>>

(***************************************************************************)
(* Properties of the scripted interaction                                  *)
(***************************************************************************)
\* the transcript of k rounds of which the first `good` were answered as
\* expected: query, reply, query, reply, ...
RECURSIVE RoundsTranscript(_, _)
RoundsTranscript(k, good) ==
    IF k = 0 THEN <<>>
    ELSE RoundsTranscript(k - 1, good)
         \o <<LogEntry("JUDGE -> SOLVER", Query),
              LogEntry("SOLVER -> JUDGE", IF k <= good THEN ExpectedReply ELSE WrongReply)>>

\* the round in which the judge meets the first wrong reply
MismatchedRound == script.correct + 1

\* the transcript up to and including the wrong reply of the mismatched round
MismatchTranscript == RoundsTranscript(MismatchedRound, script.correct)

\* C18: with the n-round judge and a solver that replies wrongly, once the
\* judge has exited it has exited with code 1 and the transcript already
\* holds, in order, the query of the mismatched round and the wrong reply to
\* it; the result is then WA with exit_code 1 and no error message.  (A
\* solver that is never wrong gets AC with exit code 0 after n rounds.)
C18_WrongAnswer ==
    /\ (script.correct < script.n /\ judge_proc.by = "self") =>
           /\ judge_proc.code = Some(1)
           /\ log_lines = MismatchTranscript
    /\ (script.correct < script.n /\ result # NoResult) =>
           /\ result = InteractionResult("WA", result.time, Some(1), None)
           /\ judge_proc.by = "self"
           /\ log_lines = MismatchTranscript
    /\ (script.correct = script.n /\ result # NoResult) =>
           /\ result = InteractionResult("AC", result.time, Some(0), None)
           /\ log_lines = RoundsTranscript(script.n, script.n)

\* the solver that is always wrong, against a judge of two rounds: WA with
\* the query and the wrong reply in the transcript
C18_Witness ==
    /\ Returned
    /\ script.n = 2 /\ script.correct = 0
    /\ result.verdict = "WA" /\ result.exit_code = Some(1)
    /\ log_lines = <<LogEntry("JUDGE -> SOLVER", Query),
                     LogEntry("SOLVER -> JUDGE", WrongReply)>>

\* an exception has left run_interaction
Raised == pc = "raised"

\* C19: when creating a temporary file raises and the exception leaves
\* run_interaction, no temporary file of this call is left on disk.
C19_SetupReleases == Raised => files = {}

\* nothing is appended to the transcript or written to a child's stdin
NothingProcessed ==
    /\ log_lines' = log_lines
    /\ solver_in' = solver_in
    /\ judge_in' = judge_in

\* C20 as stated: from the moment the judge process has exited no line is
\* logged or forwarded any more, and the verdict returned is the mapping of
\* the judge's exit code.
C20_Original ==
    /\ [][JudgeExitedItself => NothingProcessed]_vars
    /\ [](Returned /\ JudgeExitedItself =>
             /\ result.verdict = ExpectedVerdict(judge_proc.code[1])
             /\ result.exit_code = judge_proc.code)

\* C20: at the loop iteration that finds the judge exited, with neither
\* budget exceeded, the result is the mapping of the judge's exit code with
\* that code, whatever the solver's state and whatever output is still
\* unread, and from that step on nothing is logged or forwarded.  (Lines read
\* by the iteration during which the judge exited are still processed.)
C20_JudgeExitFinal ==
    /\ [][(/\ pc = "loop" /\ pc' # "loop"
            /\ judge_proc.state = "exited"
            /\ now - start_time <= timeout_total
            /\ now - last_activity <= timeout_per_turn)
              => (/\ pc' = "finally"
                  /\ result'.verdict = ExpectedVerdict(judge_proc.code[1])
                  /\ result'.exit_code = judge_proc.code
                  /\ result'.error_message = None
                  /\ NothingProcessed)]_vars
    /\ [][result # NoResult => NothingProcessed /\ result' = result]_vars

\* the judge's verdict was returned while the solver was still running and a
\* line of the solver was still unread: it is in neither the transcript nor
\* the judge's stdin
C20_Witness ==
    /\ Returned /\ JudgeExitedItself
    /\ result.verdict = ExpectedVerdict(judge_proc.code[1])
    /\ solver_proc.by \in {"terminate", "kill"}
    /\ HasNewline(pipe[<<"solver", "stdout">>])
    /\ log_lines = <<>> /\ judge_in = <<>>

\* C21: the loop iteration that finds the total or the idle budget exceeded
\* resolves the trial as TLE without exit code, whatever the judge's state:
\* also when the judge has exited (with any code) and no iteration has
\* polled that exit yet.
C21_TimeoutOverridesJudge ==
    (/\ pc \in {"finally", "done"}
     /\ ~IsException(result)
     /\ \/ ElapsedAtReturn > timeout_total
        \/ IdleAtReturn > timeout_per_turn)
        => /\ result.verdict = "TLE"
           /\ result.exit_code = None
           /\ result.error_message \in {TotalMessage, TurnMessage}

\* the judge had exited with code 0 and the trial was resolved as TLE
C21_Witness ==
    /\ Returned
    /\ result.verdict = "TLE"
    /\ judge_proc = Exited(0, "self")

\* C22: when the runner has recorded the solver's exit while the judge was
\* running, and the judge's own exit is then polled within the grace window
\* by an iteration that finds neither budget exceeded, the result is the
\* judge's verdict with the judge's exit code and no error message, whatever
\* the solver's exit code was.
C22_JudgeWithinGrace ==
    (/\ pc \in {"finally", "done"}
     /\ ~IsException(result)
     /\ SolverExitedItself
     /\ solver_exited /\ solver_exit_time # None
     /\ JudgeExitedItself
     /\ now - solver_exit_time[1] <= Grace
     /\ ElapsedAtReturn <= timeout_total
     /\ IdleAtReturn <= timeout_per_turn)
        => /\ result.verdict = ExpectedVerdict(judge_proc.code[1])
           /\ result.exit_code = judge_proc.code
           /\ result.error_message = None

\* the solver exited with code 7, the judge exited with code 1 one second
\* after that exit was recorded: WA with exit code 1
C22_Witness ==
    /\ Returned
    /\ solver_proc = Exited(7, "self")
    /\ solver_exited /\ solver_exit_time # None
    /\ judge_proc = Exited(1, "self")
    /\ now - solver_exit_time[1] = 1
    /\ result.verdict = "WA" /\ result.exit_code = Some(1)

\* C23 as stated, under the stress test's budgets and without internal
\* exception: the solver has exited, the judge has written nothing and has
\* not exited, and the result is RE with the solver's exit code and the
\* judge-did-not-respond message.
C23_Original ==
    (/\ Returned /\ ~IsException(result)
     /\ SolverExitedItself
     /\ ~JudgeExitedItself
     /\ written = 0)
        => GraceOutcome

\* some monitored stream holds bytes: the next read of it is not empty
BytesPending == \E s \in Streams : pipe[s] # <<>>

\* C24: last_activity is set when the loop's locals are initialised and by
\* every batch of select events in which a read returned bytes (complete
\* line or not), and by nothing else: a batch of end-of-file reads, an exit
\* of a process, the forwarding and logging of lines, and every other step
\* leave it as it is.
C24_IdleClock ==
    [][last_activity' =
          IF pc = "register" /\ pc' = "loop" THEN now
          ELSE IF pc = "select" /\ pc' = "loop" /\ BytesPending THEN now
          ELSE last_activity]_vars

\* a byte was read after the loop started; the solver's exit was recorded
\* later and its end-of-file was read later still, and the idle clock still
\* shows the time of the byte
C24_Witness ==
    /\ pc = "loop"
    /\ last_activity > start_time
    /\ solver_exited /\ solver_exit_time # None
    /\ solver_exit_time[1] > last_activity
    /\ now > solver_exit_time[1]

RECURSIVE Flatten(_)
Flatten(seqs) == IF seqs = <<>> THEN <<>> ELSE Head(seqs) \o Flatten(Tail(seqs))

Range(f) == {f[x] : x \in DOMAIN f}

\* the texts of the transcript entries with a tag, in order
RECURSIVE Logged(_, _)
Logged(log, tag) ==
    IF log = <<>> THEN <<>>
    ELSE (IF Head(log).tag = tag THEN <<Head(log).text>> ELSE <<>>)
         \o Logged(Tail(log), tag)

\* the bytes of a stream the runner has read so far
Consumed(s) == Take(sent[s], Len(sent[s]) - Len(pipe[s]))

\* the complete lines a process has written to its stdout so far, with their
\* terminators
StdoutLines(source) == WithTerminators(CompleteLines(sent[<<source, "stdout">>]))

\* a is b with some elements left out
RECURSIVE IsSubseq(_, _)
IsSubseq(a, b) ==
    IF a = <<>> THEN TRUE
    ELSE IF b = <<>> THEN FALSE
    ELSE IF Head(a) = Head(b) THEN IsSubseq(Tail(a), Tail(b))
    ELSE IsSubseq(a, Tail(b))

\* C25: what the transcript holds under a process's STDERR tag is, in order,
\* made of the stderr bytes the runner has read from that process (stripped
\* of surrounding blanks), none of them having been read from it is missing
\* unless blank, and no stderr byte is in either stdin; every line written to
\* the solver's stdin is a complete line of judge stdout, every line written
\* to the judge's stdin a complete line of solver stdout.
C25_StderrNotForwarded ==
    /\ \A source \in {"judge", "solver"} :
          LET tag == IF source = "judge" THEN "JUDGE STDERR" ELSE "SOLVER STDERR"
              read == Decode(Consumed(<<source, "stderr">>))
              text == Flatten(Logged(log_lines, tag))
          IN  /\ IsSubseq(text, read)
              /\ \A b \in Range(read) : ~IsSpace(b) => b \in Range(text)
    /\ \A b \in Range(Flatten(solver_in)) \cup Range(Flatten(judge_in)) :
          b \notin ErrBytes
    /\ Range(solver_in) \subseteq Range(StdoutLines("judge"))
    /\ Range(judge_in) \subseteq Range(StdoutLines("solver"))

\* stderr bytes of both processes are in the transcript, the judge's line
\* was forwarded to the solver, and the judge's stdin has received nothing
C25_Witness ==
    /\ Logged(log_lines, "JUDGE STDERR") # <<>>
    /\ Logged(log_lines, "SOLVER STDERR") # <<>>
    /\ solver_in # <<>>
    /\ judge_in = <<>>

\* the complete lines of the bytes read so far from a process's stdout
LinesRead(source) == CompleteLines(Consumed(<<source, "stdout">>))

\* the process has been running since its start (no teardown signal yet)
StillRunning(p) == p = Running

\* C26: of the bytes read so far from the stdout of a process, the
\* unterminated tail - and nothing else - is in that stream's own buffer, and
\* the complete lines - and nothing else - are in the transcript under that
\* direction's tag, each once, as one entry and in order, however many reads
\* delivered them; what was forwarded to the peer that is still running is
\* these same lines.  This holds in every state, the one the trial ends in
\* included, so a tail still buffered then is in no transcript entry.
C26_PartialLines ==
    /\ judge_buffer = Remainder(Consumed(<<"judge", "stdout">>))
    /\ solver_buffer = Remainder(Consumed(<<"solver", "stdout">>))
    /\ Logged(log_lines, "JUDGE -> SOLVER")
          = [i \in 1..Len(LinesRead("judge")) |-> Decode(LinesRead("judge")[i])]
    /\ Logged(log_lines, "SOLVER -> JUDGE")
          = [i \in 1..Len(LinesRead("solver")) |-> Decode(LinesRead("solver")[i])]
    /\ StillRunning(solver_proc) => solver_in = WithTerminators(LinesRead("judge"))
    /\ StillRunning(judge_proc) => judge_in = WithTerminators(LinesRead("solver"))
    /\ IsSubseq(solver_in, WithTerminators(LinesRead("judge")))
    /\ IsSubseq(judge_in, WithTerminators(LinesRead("solver")))

\* the trial has ended with the solver's unterminated "a" still buffered and
\* absent from the transcript, while the judge's line "a" is in it once
C26_Witness ==
    /\ Returned
    /\ solver_buffer = <<"a">>
    /\ Logged(log_lines, "SOLVER -> JUDGE") = <<>>
    /\ Logged(log_lines, "JUDGE -> SOLVER") = <<(<<"a">>)>>
    /\ judge_buffer = <<>>

\* C27: the lines written to the solver's stdin are, in the same order and
\* each with its content and terminator unchanged, a selection of the
\* complete lines the judge has written to its stdout (a line is left out
\* when the peer is gone, never duplicated, merged or altered), and likewise
\* the lines written to the judge's stdin with respect to solver stdout.
C27_VerbatimInOrder ==
    /\ IsSubseq(solver_in, StdoutLines("judge"))
    /\ IsSubseq(judge_in, StdoutLines("solver"))

\* two different lines of the judge, "a" and the empty line, have reached
\* the solver's stdin in the order written
C27_Witness ==
    /\ Len(solver_in) = 2
    /\ solver_in[1] = <<"a", "nl">>
    /\ solver_in[2] = <<"nl">>

IsPrefix(a, b) == Len(a) <= Len(b) /\ SubSeq(b, 1, Len(a)) = a

\* the writes made to one process's stdin, in order
RECURSIVE WrittenTo(_, _)
WrittenTo(w, dest) ==
    IF w = <<>> THEN <<>>
    ELSE (IF Head(w).to = dest THEN <<Head(w).line>> ELSE <<>>)
         \o WrittenTo(Tail(w), dest)

\* the transcript entry of a line written to a process's stdin
EntryOf(w) ==
    LogEntry(IF w.to = "solver" THEN "JUDGE -> SOLVER" ELSE "SOLVER -> JUDGE",
             Decode(SubSeq(w.line, 1, Len(w.line) - 1)))

\* C28: no step removes or changes a transcript entry; every write to a
\* stdin was made when the entry of its line was the last entry of the
\* transcript (the entry comes first), so the writes of both directions
\* follow each other in the order of their entries; and what each process
\* has received on stdin is exactly the writes made to it, each line of
\* them being in the transcript.
C28_TranscriptOrder ==
    /\ [][IsPrefix(log_lines, log_lines')]_vars
    /\ [](/\ \A k \in DOMAIN wire :
                /\ wire[k].entries \in DOMAIN log_lines
                /\ log_lines[wire[k].entries] = EntryOf(wire[k])
          /\ \A k \in DOMAIN wire : \A m \in DOMAIN wire :
                k < m => wire[k].entries < wire[m].entries
          /\ solver_in = WrittenTo(wire, "solver")
          /\ judge_in = WrittenTo(wire, "judge"))

\* the solver's line was forwarded to the judge, then the judge's line to
\* the solver, with a stderr entry in the transcript before them
C28_Witness ==
    /\ Len(wire) = 2
    /\ wire[1].to = "judge" /\ wire[2].to = "solver"
    /\ wire[1].entries = 2
    /\ Len(log_lines) = 3

\* the lines a batch of select events completes on the stdout of a process
LinesCompleted(source) ==
    CompleteLines((IF source = "judge" THEN judge_buffer ELSE solver_buffer)
                  \o ReadData(<<source, "stdout">>))

\* C29: a batch of select events that completes judge lines when the solver
\* has exited, or solver lines when the judge has exited (the write then
\* fails with a broken pipe), appends the entries of these lines to the
\* transcript, writes nothing to the stdin of the process that is gone,
\* returns to the top of the loop and leaves the result unset: no verdict
\* and no error message come from the failed forwarding.
C29_DeadPeer ==
    [][(pc = "select" /\ pc' = "loop")
        => /\ (solver_proc.state = "exited" /\ LinesCompleted("judge") # <<>>)
                => /\ Logged(log_lines', "JUDGE -> SOLVER")
                        = Logged(log_lines, "JUDGE -> SOLVER")
                          \o [i \in 1..Len(LinesCompleted("judge")) |->
                                 Decode(LinesCompleted("judge")[i])]
                   /\ solver_in' = solver_in
                   /\ result' = NoResult
           /\ (judge_proc.state = "exited" /\ LinesCompleted("solver") # <<>>)
                => /\ Logged(log_lines', "SOLVER -> JUDGE")
                        = Logged(log_lines, "SOLVER -> JUDGE")
                          \o [i \in 1..Len(LinesCompleted("solver")) |->
                                 Decode(LinesCompleted("solver")[i])]
                   /\ judge_in' = judge_in
                   /\ result' = NoResult]_vars

\* both children have exited, a line of each was read afterwards: both lines
\* are in the transcript, neither was written to a stdin, and the loop is at
\* its top with no result
C29_Witness ==
    /\ pc = "loop"
    /\ judge_proc.state = "exited" /\ solver_proc.state = "exited"
    /\ Logged(log_lines, "JUDGE -> SOLVER") # <<>>
    /\ Logged(log_lines, "SOLVER -> JUDGE") # <<>>
    /\ solver_in = <<>> /\ judge_in = <<>>
    /\ result = NoResult

\* the remaining total and idle budgets at the top of the current iteration
RemainingTotal == timeout_total - (now - start_time)
RemainingIdle == timeout_per_turn - (now - last_activity)

\* C30: every wait in select lasts at least the floor of 1 ms (so it is
\* positive) and at most the polling quantum of 100 ms; it is the least of
\* the remaining total budget, the remaining idle budget and the quantum
\* whenever that is not below the floor, and the floor otherwise; and it is
\* followed by the next iteration's timeout checks, which therefore come no
\* later than one quantum after the previous ones while no stream is
\* readable.
C30_WaitBound ==
    [][pc = "select"
        => LET wait == now' - now
               least == Min3(RemainingTotal, RemainingIdle, Quantum)
           IN  /\ pc' = "loop"
               /\ wait >= MinWait /\ wait > 0
               /\ wait <= Quantum
               /\ least >= MinWait => wait = least
               /\ least < MinWait => wait = MinWait]_vars

\* the total budget of 250 ms was used up exactly when the loop checked it
\* (elapsed = timeout_total is not a timeout), and the wait that followed
\* lasted the floor of 1 ms
C30_Witness ==
    /\ pc = "loop"
    /\ timeout_total = 250
    /\ now - start_time = timeout_total + MinWait

\* C31 as stated: forwarding never blocks, so once timeout_total and one
\* more polling quantum have elapsed the call has produced its result.
C31_Original ==
    now - start_time > timeout_total + Quantum => pc \in {"finally", "done"}

\* when the current call of run_interaction started
CallStart == IF trace = <<>> THEN StartClock ELSE trace[Len(trace)].data[1]

\* the text of the entry that records the solver's exit
InfoText(code) == <<"Solver exited with code", ToString(code)>>

GraceOver ==
    /\ solver_exited /\ solver_exit_time # None
    /\ now - solver_exit_time[1] > Grace

\* C33: the iteration that resolves the trial (without internal exception)
\* decides by the first of four conditions that holds: total budget
\* exceeded - TLE naming the total budget; else idle budget exceeded - TLE
\* naming the turn budget; else judge exited - the judge's verdict and code;
\* else grace window over - RE with the solver's code.
C33_PriorityOrder ==
    (pc \in {"finally", "done"} /\ ~IsException(result))
        => IF ElapsedAtReturn > timeout_total
           THEN result.verdict = "TLE" /\ result.error_message = TotalMessage
           ELSE IF IdleAtReturn > timeout_per_turn
           THEN result.verdict = "TLE" /\ result.error_message = TurnMessage
           ELSE IF JudgeExitedItself
           THEN /\ result.verdict = ExpectedVerdict(judge_proc.code[1])
                /\ result.exit_code = judge_proc.code
           ELSE GraceOver /\ GraceOutcome

\* all four conditions held at once - both budgets exceeded, the judge
\* exited, the grace window over - and the result names the total budget
C33_Witness ==
    /\ Returned
    /\ ElapsedAtReturn > timeout_total
    /\ IdleAtReturn > timeout_per_turn
    /\ JudgeExitedItself
    /\ SolverExitedItself /\ GraceOver
    /\ result.verdict = "TLE" /\ result.error_message = TotalMessage

\* an iteration passed the judge check, so it reached the test of the
\* solver's poll
ReachedSolverCheck == pc = "loop" /\ pc' = "select"

\* C34: the solver's exit is recorded once.  The record is made by the first
\* iteration that reaches the solver check with the solver dead, with the
\* time of that iteration; once made it never changes, whatever is read
\* afterwards; and the transcript has an INFO entry exactly when the record
\* exists, so at most one.
C34_RecordedOnce ==
    /\ [][/\ solver_exited => (solver_exited' /\ solver_exit_time' = solver_exit_time)
          /\ (~solver_exited /\ solver_exited')
                => /\ pc = "loop" /\ Poll(solver_proc) # None
                   /\ solver_exit_time' = Some(now)
          /\ (ReachedSolverCheck /\ Poll(solver_proc) # None) => solver_exited'
         ]_vars
    /\ [](/\ Len(Logged(log_lines, "INFO")) = (IF solver_exited THEN 1 ELSE 0)
          /\ solver_exited <=> solver_exit_time # None)

\* after the record was made, bytes were read (the idle clock was reset) and
\* a further iteration found the solver dead again: the record is the old one
C34_Witness ==
    /\ pc = "select"
    /\ solver_exited
    /\ last_activity > solver_exit_time[1]
    /\ now > last_activity
    /\ Logged(log_lines, "INFO") = <<InfoText(solver_proc.code[1])>>

\* run_interaction has returned the result of a Popen call that raised
SpawnFailed ==
    /\ Returned /\ IsException(result)
    /\ result.error_message[2] \in {"spawn_judge", "spawn_solver"}

\* RE, the exception's text, no exit code
SpawnFailureResult ==
    /\ result.verdict = "RE"
    /\ result.exit_code = None
    /\ result.error_message = <<"exception", result.error_message[2]>>

\* the exception of a Popen call never leaves run_interaction
SpawnNeverRaises ==
    [][(pc \in {"spawn_judge", "spawn_solver"}) => (pc' # "raised")]_vars

C36_NoTrials ==
    num_tests <= 0 =>
        /\ trace = <<>>
        /\ gen_result = None
        /\ pc = "tempfiles" /\ files = {} /\ result = NoResult
        /\ st_pc \in {"for", "done"}
        /\ StressReturned => report = Some(PassReport(num_tests))

\* the pass report was returned for num_tests = 0 and nothing was run
C36_Witness ==
    /\ StressReturned
    /\ num_tests = 0
    /\ IsReport("INTERACTIVE STRESS TEST PASSED")
    /\ trace = <<>>

SolveReturned == sv_pc = "returned"

\* C37: solve / continue_solving return success = True only with a non-empty
\* code that was the solution_code of a stress-test call of this call whose
\* result was the pass report, no later stress-test call having returned an
\* interaction failure; and with success = False the code returned is the
\* last one extracted.
C37_VerificationGate ==
    SolveReturned =>
        /\ solved[1].success =>
              /\ NonEmpty(solved[1].code)
              /\ solved[1].code[1] \in passed_codes
        /\ ~solved[1].success => solved[1].code = last_code

PrepReturned == pp_pc = "returned"

\* C38: generate returns a pair only when both blocks were extracted from
\* one response - the last one - and the validator's last call was for
\* exactly that pair and accepted it; it makes at most max_attempts
\* attempts, each with at most 10 calls of generate_content; and it returns
\* None when the attempts are exhausted or ten calls in a row have failed.
C38_ValidatedPair ==
    /\ Len(requests) <= gen_max_attempts
    /\ \A k \in 1..Len(requests) : requests[k] <= RequestTries
    /\ attempt <= gen_max_attempts
    /\ PrepReturned =>
          IF generated # None
          THEN /\ response = Some([generator |-> Some(generated[1][1]),
                                   judge |-> Some(generated[1][2])])
               /\ validation = Some([generator |-> generated[1][1],
                                     judge |-> generated[1][2],
                                     is_valid |-> TRUE])
          ELSE \/ attempt = gen_max_attempts
               \/ attempt < gen_max_attempts
                  /\ requests[attempt + 1] = RequestTries
                  /\ retry = RequestTries - 1

\* the first attempt used all ten request tries and returned nothing; the
\* pair of the second attempt's response was accepted and returned
C38_Witness ==
    /\ PrepReturned
    /\ generated = Some(<<"g2", "j2">>)
    /\ attempt = 1
    /\ validation # None /\ validation[1].is_valid
    /\ Len(requests) = 2 /\ requests[1] = RequestTries

=============================================================================
